---- MODULE Spec2Model ----
(***************************************************************************)
(* A model of pyfoma's FST engine (src/src/pyfoma/fst.py): the State /     *)
(* Transition graph, the constructors, and the weighted best-first         *)
(* traversal.                                                              *)
(*                                                                         *)
(* Python strings are sequences of one-character strings, so that a symbol *)
(* is a sequence (epsilon is the empty one) and a label is a tuple of one  *)
(* or two symbols.  Objects live in heaps indexed by their identity:       *)
(* states[i] is the i-th State object created, trs[t] the t-th Transition. *)
(* Floats are integers, float("inf") is Inf with saturating addition.      *)
(***************************************************************************)
EXTENDS Integers, Sequences, FiniteSets, TLC

VARIABLES
    states,     \* heap of State objects
    trs,        \* heap of Transition objects
    fsts,       \* heap of FST objects; a field holding a set holds its identity
    alphabets,  \* heap of the set objects that serve as alphabets
    sets,       \* heap of the set objects that hold State objects
    lastop,     \* the last operation called, its arguments and what it returned
    ap,         \* the frame of the generator that apply() or words() returned
    out         \* what that generator has yielded so far

vars == <<states, trs, fsts, alphabets, sets, lastop, ap, out>>
fstvars == <<fsts, alphabets, sets>>
appvars == <<ap, out>>

----------------------------------------------------------------------------
(* Bounds of the model *)

\* Transition objects ever created in the State-operations specification
MaxTrans == 2

\* float("inf")
Inf == 1000000

----------------------------------------------------------------------------
(* Symbols and labels *)

EPSILON == <<>>
SymA == <<"a">>
SymB == <<"b">>

\* label[0] and label[-1]
LabelIn(label) == label[1]
LabelOut(label) == label[Len(label)]
\* label[i] for the two indices the code uses, 0 and -1
LabelAt(label, i) == IF i = 0 THEN LabelIn(label) ELSE LabelOut(label)

WAdd(x, y) == IF x = Inf \/ y = Inf THEN Inf ELSE x + y

----------------------------------------------------------------------------
(* dict helpers: a dict is a function whose DOMAIN is its key set *)

DictGet(d, k, default) == IF k \in DOMAIN d THEN d[k] ELSE default
DictPut(d, k, v) == [x \in (DOMAIN d) \cup {k} |-> IF x = k THEN v ELSE d[x]]
DictPop(d, k) == [x \in (DOMAIN d) \ {k} |-> d[x]]

----------------------------------------------------------------------------
(* class Transition, class State *)

Transition(targetstate, label, weight) ==
    [targetstate |-> targetstate, label |-> label, weight |-> weight]

\* a lazily computed index that has not been computed: None
NoIndex == [computed |-> FALSE, map |-> <<>>]

State(finalweight, name) ==
    [transitions |-> <<>>, tin |-> NoIndex, tout |-> NoIndex,
     finalweight |-> finalweight, name |-> name]

NoName == "<None>"

\* the heap after self.add_transition(other, label, weight)
add_transition(H, self, other, label, weight) ==
    LET tid == Len(H.trs) + 1
    IN  [H EXCEPT !.states[self].transitions =
                        DictPut(@, label, DictGet(@, label, {}) \cup {tid}),
                  !.trs = Append(@, Transition(other, label, weight))]

\* the mutant leaves a label whose set became empty in the dict
remove_transitions_to_targets_keepempty(H, self, targets) ==
    LET st == H.states[self]
        kept(label) == {t \in st.transitions[label] : H.trs[t].targetstate \notin targets}
    IN  [H EXCEPT !.states[self].transitions = [label \in DOMAIN st.transitions |-> kept(label)]]

\* the mutant drops a whole label when one of its transitions goes
remove_transitions_to_targets_wholelabel(H, self, targets) ==
    LET st == H.states[self]
        hit(label) == \E t \in st.transitions[label] : H.trs[t].targetstate \in targets
    IN  [H EXCEPT !.states[self].transitions =
            [label \in {l \in DOMAIN st.transitions : ~hit(l)} |-> st.transitions[label]]]

remove_transitions_to_targets(H, self, targets) ==
    LET st == H.states[self]
        kept(label) == {t \in st.transitions[label] : H.trs[t].targetstate \notin targets}
        newt == [label \in {l \in DOMAIN st.transitions : kept(l) # {}} |-> kept(label)]
    IN  [H EXCEPT !.states[self].transitions = newt]

\* self.transitions[original] raises KeyError when original is no key
rename_label_enabled(H, self, original) == original \in DOMAIN H.states[self].transitions

rename_label(H, self, original, new) ==
    LET st == H.states[self]
        moved == st.transitions[original]
        trs1 == [t \in DOMAIN H.trs |->
                    IF t \in moved THEN [H.trs[t] EXCEPT !.label = new] ELSE H.trs[t]]
        d1 == DictPut(st.transitions, new, DictGet(st.transitions, new, {}) \cup moved)
        d2 == DictPop(d1, original)
    IN  [H EXCEPT !.states[self].transitions = d2, !.trs = trs1]

\* the index the two properties build: label[pos] -> {(label, transition)}
BuildIndex(transitions, i) ==
    LET syms == {LabelAt(label, i) : label \in DOMAIN transitions}
    IN  [sym \in syms |->
            UNION {{<<label, t>> : t \in transitions[label]} :
                        label \in {l \in DOMAIN transitions : LabelAt(l, i) = sym}}]

\* the State after reading the property: the index is built when it is None
transitionsin(st) ==
    IF st.tin.computed THEN st
    ELSE [st EXCEPT !.tin = [computed |-> TRUE, map |-> BuildIndex(st.transitions, 0)]]

transitionsout(st) ==
    IF st.tout.computed THEN st
    ELSE [st EXCEPT !.tout = [computed |-> TRUE, map |-> BuildIndex(st.transitions, -1)]]


----------------------------------------------------------------------------
(* class FST: the constructors *)

\* label = None
NoLabel == <<>>

\* the set object that is the default value of __init__'s alphabet parameter:
\* it is created once, when the def statement runs
DefaultAlphabet == 1

\* the heaps before any object was created
EmptyHeap ==
    [states |-> <<>>, trs |-> <<>>, fsts |-> <<>>, alphabets |-> <<{}>>, sets |-> <<>>]

\* the object the next constructor call returns
NewFst(H) == Len(H.fsts) + 1

\* the mutant adds the second state to finalstates without adding it to states
FST_init_forgetstate(H, label, weight, alphabet) ==
    LET init == Len(H.states) + 1
        sref == Len(H.sets) + 1
        fref == Len(H.sets) + 2
        self == NewFst(H)
        H1 == [H EXCEPT
                !.states = Append(@, State(Inf, NoName)),
                !.sets = @ \o <<{init}, {}>>,
                !.fsts = Append(@, [alphabet |-> alphabet, initialstate |-> init,
                                    states |-> sref, finalstates |-> fref])]
    IN  IF label = <<EPSILON>>
        THEN [H1 EXCEPT !.sets[fref] = @ \cup {init},
                        !.states[init].finalweight = weight]
        ELSE IF label # NoLabel
        THEN LET targetstate == init + 1
                 H2 == [H1 EXCEPT
                          !.alphabets = Append(@, {label[k] : k \in DOMAIN label}),
                          !.fsts[self].alphabet = Len(H.alphabets) + 1,
                          !.states = Append(@, State(Inf, NoName)),
                          !.sets = Append(@, {targetstate}),
                          !.fsts[self].finalstates = fref + 1]
                 H3 == [H2 EXCEPT !.states[targetstate].finalweight = weight]
             IN  add_transition(H3, init, targetstate, label, 0)
        ELSE H1

\* FST(label, weight, alphabet), alphabet being the identity of the set passed
FST_init(H, label, weight, alphabet) ==
    LET init == Len(H.states) + 1
        sref == Len(H.sets) + 1
        fref == Len(H.sets) + 2
        self == NewFst(H)
        H1 == [H EXCEPT
                !.states = Append(@, State(Inf, NoName)),
                !.sets = @ \o <<{init}, {}>>,
                !.fsts = Append(@, [alphabet |-> alphabet, initialstate |-> init,
                                    states |-> sref, finalstates |-> fref])]
    IN  IF label = <<EPSILON>>
        THEN [H1 EXCEPT !.sets[fref] = @ \cup {init},
                        !.states[init].finalweight = weight]
        ELSE IF label # NoLabel
        THEN LET targetstate == init + 1
                 H2 == [H1 EXCEPT
                          !.alphabets = Append(@, {label[k] : k \in DOMAIN label}),
                          !.fsts[self].alphabet = Len(H.alphabets) + 1,
                          !.states = Append(@, State(Inf, NoName)),
                          !.sets = Append([@ EXCEPT ![sref] = @ \cup {targetstate}],
                                          {targetstate}),
                          !.fsts[self].finalstates = fref + 1]
                 H3 == [H2 EXCEPT !.states[targetstate].finalweight = weight]
             IN  add_transition(H3, init, targetstate, label, 0)
        ELSE H1

\* chr(): the characters of the model by code point
CharTable == <<"a", "b", "c">>
Chr(symbol) == <<CharTable[symbol]>>
WILDCARD == <<".">>

\* range(start, end + 1) for every (start, end) of ranges, in order
RECURSIVE RangeSymbols(_)
RangeSymbols(ranges) ==
    IF ranges = <<>> THEN <<>>
    ELSE LET start == ranges[1][1]
             end == ranges[1][2]
         IN  [k \in 1..(IF end >= start THEN end - start + 1 ELSE 0) |-> start + k - 1]
                \o RangeSymbols(Tail(ranges))

\* "symbol not in alphabet": symbol is an int and the alphabet holds the
\* one-character strings chr(symbol), so no member ever equals it
IntInAlphabet(symbol, alphabet) == FALSE

\* the loop body over the code points, in order; R holds the heap and the
\* local variable alphabet
RECURSIVE character_ranges_loop(_, _, _, _, _)
character_ranges_loop(R, initialstate, secondstate, symbols, complement) ==
    IF symbols = <<>> THEN R
    ELSE LET symbol == symbols[1]
             R1 == IF ~IntInAlphabet(symbol, R.alphabet)
                   THEN [H |-> IF ~complement
                               THEN add_transition(R.H, initialstate, secondstate,
                                                   <<Chr(symbol)>>, 0)
                               ELSE R.H,
                         alphabet |-> R.alphabet \cup {Chr(symbol)}]
                   ELSE R
         IN  character_ranges_loop(R1, initialstate, secondstate, Tail(symbols), complement)

character_ranges(H, ranges, complement) ==
    LET H1 == FST_init(H, NoLabel, 0, DefaultAlphabet)
        newfst == NewFst(H)
        initialstate == H1.fsts[newfst].initialstate
        secondstate == Len(H1.states) + 1
        H2 == [H1 EXCEPT
                !.states = Append(@, State(0, NoName)),
                !.sets = Append([@ EXCEPT ![H1.fsts[newfst].states] = @ \cup {secondstate}],
                                {secondstate}),
                !.fsts[newfst].finalstates = Len(H1.sets) + 1]
        R3 == character_ranges_loop([H |-> H2, alphabet |-> {}], initialstate,
                                    secondstate, RangeSymbols(ranges), complement)
        H4 == IF complement
              THEN add_transition(R3.H, initialstate, secondstate, <<WILDCARD>>, 0)
              ELSE R3.H
    IN  [H4 EXCEPT
            !.alphabets = Append(@, IF complement THEN R3.alphabet \cup {WILDCARD}
                                    ELSE R3.alphabet),
            !.fsts[newfst].alphabet = Len(H4.alphabets) + 1]

\* The order in which the model iterates a set of objects or of numbers:
\* ascending.  Python's order is arbitrary; in the constructors it decides
\* only which identity each new object gets.
RECURSIVE SetToSeq(_)
SetToSeq(S) ==
    IF S = {} THEN <<>>
    ELSE LET m == CHOOSE x \in S : \A y \in S : x <= y
         IN  <<m>> \o SetToSeq(S \ {m})

\* State.all_transitions: the (label, transition) pairs of a State
StateAllTransitions(H, s) ==
    LET st == H.states[s]
        held == SetToSeq(UNION {st.transitions[label] : label \in DOMAIN st.transitions})
    IN  [k \in DOMAIN held |->
            <<CHOOSE label \in DOMAIN st.transitions : held[k] \in st.transitions[label],
              held[k]>>]

\* FST.all_transitions(states): the triples (state, label, transition)
RECURSIVE all_transitions(_, _)
all_transitions(H, stateseq) ==
    IF stateseq = <<>> THEN <<>>
    ELSE LET own == StateAllTransitions(H, stateseq[1])
         IN  [k \in DOMAIN own |-> <<stateseq[1], own[k][1], own[k][2]>>]
                \o all_transitions(H, Tail(stateseq))

\* the functions callers pass to copy_mod and copy_filtered
ModLabels == {"same", "invert"}
ModWeights == {"same", "zero"}
LabelFilters == {"all", "noepsilon"}
Reverse(label) == [k \in DOMAIN label |-> label[Len(label) + 1 - k]]
modlabel(f, l, w) == IF f = "invert" THEN Reverse(l) ELSE l
modweight(f, l, w) == IF f = "zero" THEN 0 ELSE w
labelfilter(f, l) == IF f = "noepsilon" THEN \E k \in DOMAIN l : l[k] # EPSILON ELSE TRUE

\* q1q2[...] raises KeyError for a State that is not in self.states
copy_enabled(H, self) ==
    LET f == H.fsts[self]
        S == H.sets[f.states]
    IN  /\ f.initialstate \in S
        /\ H.sets[f.finalstates] \subseteq S
        /\ \A s \in S : \A label \in DOMAIN H.states[s].transitions :
                \A t \in H.states[s].transitions[label] : H.trs[t].targetstate \in S

\* q1q2: the k-th State of self.states (in iteration order) maps to the k-th
\* State object created
Q1Q2(ks, base) == [s \in {ks[k] : k \in DOMAIN ks} |->
                        base + (CHOOSE k \in DOMAIN ks : ks[k] = s)]

RECURSIVE copy_mod_loop(_, _, _, _, _, _)
copy_mod_loop(H, old, triples, q1q2, ml, mw) ==
    IF triples = <<>> THEN H
    ELSE LET s == triples[1][1]
             lbl == triples[1][2]
             t == old.trs[triples[1][3]]
         IN  copy_mod_loop(
                add_transition(H, q1q2[s], q1q2[t.targetstate],
                               modlabel(ml, lbl, t.weight), modweight(mw, lbl, t.weight)),
                old, Tail(triples), q1q2, ml, mw)


copy_mod(H, self, ml, mw) ==
    LET f == H.fsts[self]
        newfst == NewFst(H)
        H1 == FST_init([H EXCEPT !.alphabets = Append(@, H.alphabets[f.alphabet])],
                       NoLabel, 0, Len(H.alphabets) + 1)
        ks == SetToSeq(H.sets[f.states])
        q1q2 == Q1Q2(ks, Len(H1.states))
        H2 == [H1 EXCEPT
                !.states = @ \o [k \in DOMAIN ks |-> State(Inf, H.states[ks[k]].name)],
                !.sets = @ \o <<{q1q2[s] : s \in H.sets[f.states]},
                                {q1q2[s] : s \in H.sets[f.finalstates]}>>,
                !.fsts[newfst] = [@ EXCEPT !.states = Len(H1.sets) + 1,
                                           !.finalstates = Len(H1.sets) + 2,
                                           !.initialstate = q1q2[f.initialstate]]]
        H3 == copy_mod_loop(H2, H, all_transitions(H, ks), q1q2, ml, mw)
    IN  [H3 EXCEPT !.states = [n \in DOMAIN @ |->
            IF \E s \in H.sets[f.finalstates] : q1q2[s] = n
            THEN [@[n] EXCEPT !.finalweight =
                    H.states[CHOOSE s \in H.sets[f.finalstates] : q1q2[s] = n].finalweight]
            ELSE @[n]]]

RECURSIVE copy_filtered_loop(_, _, _, _, _)
copy_filtered_loop(H, old, triples, q1q2, lf) ==
    IF triples = <<>> THEN H
    ELSE LET s == triples[1][1]
             lbl == triples[1][2]
             t == old.trs[triples[1][3]]
             H1 == IF labelfilter(lf, lbl)
                   THEN add_transition(H, q1q2[s], q1q2[t.targetstate], lbl, t.weight)
                   ELSE H
         IN  copy_filtered_loop(H1, old, Tail(triples), q1q2, lf)

\* the mutant does not carry the final weights over
copy_filtered_nofinalweight(H, self, lf) ==
    LET f == H.fsts[self]
        newfst == NewFst(H)
        H1 == FST_init([H EXCEPT !.alphabets = Append(@, H.alphabets[f.alphabet])],
                       NoLabel, 0, Len(H.alphabets) + 1)
        ks == SetToSeq(H.sets[f.states])
        q1q2 == Q1Q2(ks, Len(H1.states))
        H2 == [H1 EXCEPT
                !.states = @ \o [k \in DOMAIN ks |-> State(Inf, H.states[ks[k]].name)],
                !.sets = @ \o <<{q1q2[s] : s \in H.sets[f.states]},
                                {q1q2[s] : s \in H.sets[f.finalstates]}>>,
                !.fsts[newfst] = [@ EXCEPT !.states = Len(H1.sets) + 1,
                                           !.finalstates = Len(H1.sets) + 2,
                                           !.initialstate = q1q2[f.initialstate]]]
    IN  copy_filtered_loop(H2, H, all_transitions(H, ks), q1q2, lf)

\* the mutant hands the alphabet of self to the new FST instead of a copy of it
copy_filtered_samealphabet(H, self, lf) ==
    LET f == H.fsts[self]
        newfst == NewFst(H)
        H1 == FST_init(H, NoLabel, 0, f.alphabet)
        ks == SetToSeq(H.sets[f.states])
        q1q2 == Q1Q2(ks, Len(H1.states))
        H2 == [H1 EXCEPT
                !.states = @ \o [k \in DOMAIN ks |-> State(Inf, H.states[ks[k]].name)],
                !.sets = @ \o <<{q1q2[s] : s \in H.sets[f.states]},
                                {q1q2[s] : s \in H.sets[f.finalstates]}>>,
                !.fsts[newfst] = [@ EXCEPT !.states = Len(H1.sets) + 1,
                                           !.finalstates = Len(H1.sets) + 2,
                                           !.initialstate = q1q2[f.initialstate]]]
        H3 == copy_filtered_loop(H2, H, all_transitions(H, ks), q1q2, lf)
    IN  [H3 EXCEPT !.states = [n \in DOMAIN @ |->
            IF \E s \in H.sets[f.finalstates] : q1q2[s] = n
            THEN [@[n] EXCEPT !.finalweight =
                    H.states[CHOOSE s \in H.sets[f.finalstates] : q1q2[s] = n].finalweight]
            ELSE @[n]]]

\* the heap after copy_filtered; the FST returned is NewFst(H)
copy_filtered(H, self, lf) ==
    LET f == H.fsts[self]
        newfst == NewFst(H)
        H1 == FST_init([H EXCEPT !.alphabets = Append(@, H.alphabets[f.alphabet])],
                       NoLabel, 0, Len(H.alphabets) + 1)
        ks == SetToSeq(H.sets[f.states])
        q1q2 == Q1Q2(ks, Len(H1.states))
        H2 == [H1 EXCEPT
                !.states = @ \o [k \in DOMAIN ks |-> State(Inf, H.states[ks[k]].name)],
                !.sets = @ \o <<{q1q2[s] : s \in H.sets[f.states]},
                                {q1q2[s] : s \in H.sets[f.finalstates]}>>,
                !.fsts[newfst] = [@ EXCEPT !.states = Len(H1.sets) + 1,
                                           !.finalstates = Len(H1.sets) + 2,
                                           !.initialstate = q1q2[f.initialstate]]]
        H3 == copy_filtered_loop(H2, H, all_transitions(H, ks), q1q2, lf)
    IN  [H3 EXCEPT !.states = [n \in DOMAIN @ |->
            IF \E s \in H.sets[f.finalstates] : q1q2[s] = n
            THEN [@[n] EXCEPT !.finalweight =
                    H.states[CHOOSE s \in H.sets[f.finalstates] : q1q2[s] = n].finalweight]
            ELSE @[n]]]

\* self takes over the four fields of other: the same objects, not copies
become(H, self, other) == [H EXCEPT !.fsts[self] = H.fsts[other]]

\* self.cleanup_sigma(): the heap afterwards.  "self.alphabet &= seen"
\* updates the set object in place.
cleanup_sigma(H, self) ==
    LET triples == all_transitions(H, SetToSeq(H.sets[H.fsts[self].states]))
        seen == UNION {{triples[k][2][j] : j \in DOMAIN triples[k][2]} : k \in DOMAIN triples}
    IN  IF WILDCARD \notin seen
        THEN [H EXCEPT !.alphabets[H.fsts[self].alphabet] = @ \cap seen]
        ELSE H

----------------------------------------------------------------------------
(* FST.rlg *)

QUOTE == "'"
BACKSLASH == "\\"
SPACE == " "
NEWLINE == "\n"

\* Where the regex '(?P<multi>'|(?:\\'|[^'])*)' finds the closing quote of a
\* quoted run whose body starts at q, 0 when it finds none.  The body is
\* matched greedily, \' before [^'], and backtracks.
RECURSIVE QuoteBodyEnd(_, _)
QuoteBodyEnd(w, q) ==
    LET viaPair == IF q + 1 <= Len(w) /\ w[q] = BACKSLASH /\ w[q + 1] = QUOTE
                   THEN QuoteBodyEnd(w, q + 2) ELSE 0
        viaChar == IF q <= Len(w) /\ w[q] # QUOTE
                   THEN QuoteBodyEnd(w, q + 1) ELSE 0
    IN  IF viaPair # 0 THEN viaPair
        ELSE IF viaChar # 0 THEN viaChar
        ELSE IF q <= Len(w) /\ w[q] = QUOTE THEN q ELSE 0

\* token.replace(r"\'", "'")
RECURSIVE Unescape(_)
Unescape(token) ==
    IF token = <<>> THEN <<>>
    ELSE IF Len(token) >= 2 /\ token[1] = BACKSLASH /\ token[2] = QUOTE
    THEN <<QUOTE>> \o Unescape(SubSeq(token, 3, Len(token)))
    ELSE <<token[1]>> \o Unescape(Tail(token))

\* the tokens pyre.finditer(tok_re, w) gives from position p on; "." does not
\* match a newline, so that outside a quoted run a newline gives no token and
\* a backslash before a newline is a token of its own
RECURSIVE TokensFrom(_, _)
TokensFrom(w, p) ==
    IF p > Len(w) THEN <<>>
    ELSE IF w[p] = QUOTE /\ p + 2 <= Len(w) /\ w[p + 1] = QUOTE /\ w[p + 2] = QUOTE
    THEN <<<<QUOTE>>>> \o TokensFrom(w, p + 3)
    ELSE IF w[p] = QUOTE /\ QuoteBodyEnd(w, p + 1) # 0
    THEN LET e == QuoteBodyEnd(w, p + 1)
         IN  <<Unescape(SubSeq(w, p + 1, e - 1))>> \o TokensFrom(w, e + 1)
    ELSE IF w[p] = BACKSLASH /\ p + 1 <= Len(w) /\ w[p + 1] # NEWLINE
    THEN <<<<w[p + 1]>>>> \o TokensFrom(w, p + 2)
    ELSE IF w[p] = SPACE
    THEN <<EPSILON>> \o TokensFrom(w, p + 1)
    ELSE IF w[p] = NEWLINE
    THEN TokensFrom(w, p + 1)
    ELSE <<<<w[p]>>>> \o TokensFrom(w, p + 1)

\* _rlg_tokenize(w), multichar_symbols being None
rlg_tokenize(w) == IF w = <<>> THEN <<EPSILON>> ELSE TokensFrom(w, 1)

\* a rule (lhs, target) or (lhs, target, weight): lhs is the tuple of one or
\* two strings (a bare string is the 1-tuple, fst.py:163), weight is NoWeight
\* when the rule has two elements
NoWeight == -1
TERMINAL == "#"
Max(x, y) == IF x >= y THEN x ELSE y
TokenAt(tokens, idx) == IF idx <= Len(tokens) THEN tokens[idx] ELSE EPSILON

\* the mutant puts the weight of the rule on the first transition of the chain
RECURSIVE rlg_chain_weightfirst(_, _, _, _, _, _, _, _)
rlg_chain_weightfirst(H, newfst, statedict, currstate, rule, i, o, idx) ==
    LET n == Max(Len(i), Len(o))
        ii == TokenAt(i, idx)
        oo == TokenAt(o, idx)
        last == idx = n
        targetstate == IF last THEN statedict[rule.target] ELSE Len(H.states) + 1
        w == IF idx = 1 /\ rule.weight # NoWeight THEN rule.weight ELSE 0
        H1 == IF last THEN H
              ELSE [H EXCEPT !.states = Append(@, State(Inf, NoName)),
                             !.sets[H.fsts[newfst].states] = @ \cup {targetstate}]
        newtuple == IF ii = oo THEN <<ii>> ELSE <<ii, oo>>
        H2 == add_transition(H1, currstate, targetstate, newtuple, w)
    IN  IF idx > n THEN H
        ELSE rlg_chain_weightfirst(H2, newfst, statedict, targetstate, rule, i, o, idx + 1)

\* the zip_longest loop of one rule from position idx on
RECURSIVE rlg_chain(_, _, _, _, _, _, _, _)
rlg_chain(H, newfst, statedict, currstate, rule, i, o, idx) ==
    LET n == Max(Len(i), Len(o))
        ii == TokenAt(i, idx)
        oo == TokenAt(o, idx)
        last == idx = n
        targetstate == IF last THEN statedict[rule.target] ELSE Len(H.states) + 1
        w == IF last /\ rule.weight # NoWeight THEN rule.weight ELSE 0
        H1 == IF last THEN H
              ELSE [H EXCEPT !.states = Append(@, State(Inf, NoName)),
                             !.sets[H.fsts[newfst].states] = @ \cup {targetstate}]
        newtuple == IF ii = oo THEN <<ii>> ELSE <<ii, oo>>
        H2 == add_transition(H1, currstate, targetstate, newtuple, w)
    IN  IF idx > n THEN H
        ELSE rlg_chain(H2, newfst, statedict, targetstate, rule, i, o, idx + 1)

rlg_rule(H, newfst, statedict, lexstate, rule) ==
    LET lhs == rule.lhs
        i == rlg_tokenize(lhs[1])
        o == IF Len(lhs) = 1 THEN i ELSE rlg_tokenize(lhs[2])
        io == i \o o
        H1 == [H EXCEPT !.alphabets[H.fsts[newfst].alphabet] =
                    @ \cup {io[k] : k \in {k \in DOMAIN io : io[k] # EPSILON}}]
    IN  rlg_chain(H1, newfst, statedict, statedict[lexstate], rule, i, o, 1)

\* the mutant compiles the first rule of a rule-set only
rlg_rules_firstonly(H, newfst, statedict, lexstate, rules) ==
    IF rules = <<>> THEN H
    ELSE rlg_rule(H, newfst, statedict, lexstate, rules[1])

RECURSIVE rlg_rules(_, _, _, _, _)
rlg_rules(H, newfst, statedict, lexstate, rules) ==
    IF rules = <<>> THEN H
    ELSE rlg_rules(rlg_rule(H, newfst, statedict, lexstate, rules[1]),
                   newfst, statedict, lexstate, Tail(rules))

RECURSIVE rlg_lexstates(_, _, _, _, _)
rlg_lexstates(H, newfst, statedict, grammar, order) ==
    IF order = <<>> THEN H
    ELSE IF order[1] = TERMINAL
    THEN rlg_lexstates(H, newfst, statedict, grammar, Tail(order))
    ELSE rlg_lexstates(rlg_rules(H, newfst, statedict, order[1], grammar[order[1]]),
                       newfst, statedict, grammar, Tail(order))

\* statedict[...] raises KeyError for a name that is neither a key of the
\* grammar nor "#": rlg then returns nothing.  statedict[target] is evaluated
\* at the last position of a chain, so not at all for a rule without tokens.
rlg_enabled(grammar, startsymbol) ==
    LET names == (DOMAIN grammar) \cup {TERMINAL}
    IN  /\ startsymbol \in names
        /\ \A lexstate \in names \ {TERMINAL} : \A k \in DOMAIN grammar[lexstate] :
                LET rule == grammar[lexstate][k]
                    i == rlg_tokenize(rule.lhs[1])
                    o == IF Len(rule.lhs) = 1 THEN i ELSE rlg_tokenize(rule.lhs[2])
                IN  Max(Len(i), Len(o)) > 0 => rule.target \in names

\* rlg(grammar, startsymbol), multichar_symbols being None.  order is the order
\* in which the sets of rule-set names are iterated, a sequence of
\* grammar.keys() | {"#"} without repetition.
rlg(H, grammar, startsymbol, order) ==
    LET newfst == NewFst(H)
        H1 == FST_init([H EXCEPT !.alphabets = Append(@, {})],
                       NoLabel, 0, Len(H.alphabets) + 1)
        base == Len(H1.states)
        statedict == [name \in {order[k] : k \in DOMAIN order} |->
                        base + (CHOOSE k \in DOMAIN order : order[k] = name)]
        H2 == [H1 EXCEPT
                !.states = @ \o [k \in DOMAIN order |->
                    State(IF order[k] = TERMINAL THEN 0 ELSE Inf, order[k])],
                !.sets = @ \o <<{statedict[TERMINAL]},
                                {statedict[name] : name \in DOMAIN statedict}>>,
                !.fsts[newfst] = [@ EXCEPT !.initialstate = statedict[startsymbol],
                                           !.finalstates = Len(H1.sets) + 1,
                                           !.states = Len(H1.sets) + 2]]
    IN  rlg_lexstates(H2, newfst, statedict, grammar, order)

\* "state in self.finalstates": what apply and words take for accepting
is_final(H, self, state) == state \in H.sets[H.fsts[self].finalstates]

----------------------------------------------------------------------------
(* FST.tokenize_against_alphabet, FST.apply *)

\* the collaborator pyfoma.flag: which symbols are flag diacritics
FLAG == <<"@", "C", ".", "X", "@">>
FlagSymbols == {FLAG}
is_flag(sym) == sym \in FlagSymbols

\* FlagOp.filter_flags(output): the output without its flag diacritics
RECURSIVE filter_flags(_)
filter_flags(output) ==
    IF output = <<>> THEN <<>>
    ELSE IF is_flag(output[1]) THEN filter_flags(Tail(output))
    ELSE <<output[1]>> \o filter_flags(Tail(output))

\* FlagStringFilter(alphabet)(output) is a predicate of the collaborator: an
\* output without flag diacritics is consistent, of any other the model takes
\* both answers
flag_filter_answers(output) ==
    IF \E k \in DOMAIN output : is_flag(output[k]) THEN BOOLEAN ELSE {TRUE}

\* the mutant takes the first alphabet symbol that is a prefix of the rest
RECURSIVE token_at_shortest(_, _, _, _, _)
token_at_shortest(alphabet, word, start, length, t) ==
    IF length > Len(word) - start + 1 THEN t
    ELSE IF SubSeq(word, start, start + length - 1) \in alphabet
    THEN SubSeq(word, start, start + length - 1)
    ELSE token_at_shortest(alphabet, word, start, length + 1, t)

\* the token taken at position start: the longest alphabet symbol that is a
\* prefix of the rest, else the next character
RECURSIVE token_at(_, _, _, _, _)
token_at(alphabet, word, start, length, t) ==
    IF length > Len(word) - start + 1 THEN t
    ELSE token_at(alphabet, word, start, length + 1,
                  IF SubSeq(word, start, start + length - 1) \in alphabet
                  THEN SubSeq(word, start, start + length - 1) ELSE t)

RECURSIVE tokenize_from(_, _, _)
tokenize_from(alphabet, word, start) ==
    IF start > Len(word) THEN <<>>
    ELSE LET t == token_at(alphabet, word, start, 1, <<word[start]>>)
         IN  <<t>> \o tokenize_from(alphabet, word, start + Len(t))

\* the mutant makes one token of every character
tokenize_characters(alphabet, word) == [k \in DOMAIN word |-> <<word[k]>>]

tokenize_against_alphabet(alphabet, word) == tokenize_from(alphabet, word, 1)

\* ''.join(output)
RECURSIVE Join(_)
Join(output) == IF output = <<>> THEN <<>> ELSE output[1] \o Join(Tail(output))

\* state == None in a queue entry: the path is finished
None == 0

\* IN, OUT = [-1, 0] if inverse else [0, -1]
InIdx(inverse) == IF inverse THEN -1 ELSE 0
\* the mutant produces the last symbol of the label in both directions
OutIdx_last(inverse) == -1
OutIdx(inverse) == IF inverse THEN 0 ELSE -1

\* An entry of Q is the tuple (cost, negpos, next(cntr), output, state).  The
\* field path is not in the code: it lists the transitions the entry went over.
Entry(cost, negpos, cntr, output, state, path) ==
    [cost |-> cost, negpos |-> negpos, cntr |-> cntr, output |-> output,
     state |-> state, path |-> path]

\* tuple comparison of two entries; the counters differ, so that neither the
\* outputs nor the states are ever compared
EntryLess(e1, e2) ==
    \/ e1.cost < e2.cost
    \/ e1.cost = e2.cost /\ e1.negpos < e2.negpos
    \/ e1.cost = e2.cost /\ e1.negpos = e2.negpos /\ e1.cntr < e2.cntr

\* the mutant pops the entries in the order they were pushed
heappop_fifo(Q) == CHOOSE e \in Q : \A e2 \in Q \ {e} : e.cntr < e2.cntr

\* the mutant orders the heap by cost and then by the counter alone
heappop_insertion(Q) ==
    CHOOSE e \in Q : \A e2 \in Q \ {e} :
        e.cost < e2.cost \/ (e.cost = e2.cost /\ e.cntr < e2.cntr)

\* heapq.heappop(Q): the least entry
heappop(Q) == CHOOSE e \in Q : \A e2 \in Q \ {e} : EntryLess(e, e2)

\* the generator's frame when apply(word, ...) starts
apply_start(H, self, word, inverse, obey_flags, print_flags) ==
    [fst |-> self, word |-> word, inverse |-> inverse,
     obey_flags |-> obey_flags, print_flags |-> print_flags,
     w |-> tokenize_against_alphabet(H.alphabets[H.fsts[self].alphabet], word),
     Q |-> {Entry(0, 0, 0, <<>>, H.fsts[self].initialstate, <<>>)},
     cntr |-> 1]

\* the mutant takes every transition that consumes, whatever the next token is
apply_transition_anysym(H, A, e, lbl, tid) ==
    LET t == H.trs[tid]
        lin == LabelAt(lbl, InIdx(A.inverse))
        lout == LabelAt(lbl, OutIdx(A.inverse))
        pos == -e.negpos
        consumes == ~(lin = EPSILON \/ is_flag(lin))
    IN  IF consumes /\ pos >= Len(A.w) THEN A
        ELSE [A EXCEPT
                !.Q = @ \cup {Entry(WAdd(e.cost, t.weight),
                                    IF consumes THEN e.negpos - 1 ELSE e.negpos, A.cntr,
                                    Append(e.output, lout), t.targetstate,
                                    Append(e.path, tid))},
                !.cntr = @ + 1]

\* the mutant takes a flag diacritic for a symbol of the input
apply_transition_flagconsumes(H, A, e, lbl, tid) ==
    LET t == H.trs[tid]
        lin == LabelAt(lbl, InIdx(A.inverse))
        lout == LabelAt(lbl, OutIdx(A.inverse))
        pos == -e.negpos
    IN  IF lin = EPSILON
        THEN [A EXCEPT
                !.Q = @ \cup {Entry(WAdd(e.cost, t.weight), e.negpos, A.cntr,
                                    Append(e.output, lout), t.targetstate,
                                    Append(e.path, tid))},
                !.cntr = @ + 1]
        ELSE IF pos < Len(A.w)
        THEN LET alphabet == H.alphabets[H.fsts[A.fst].alphabet]
                 nextsym == IF A.w[pos + 1] \in alphabet THEN A.w[pos + 1] ELSE WILDCARD
                 appendedsym == IF nextsym = WILDCARD /\ lout = WILDCARD
                                THEN A.w[pos + 1] ELSE lout
             IN  IF nextsym = lin
                 THEN [A EXCEPT
                        !.Q = @ \cup {Entry(WAdd(e.cost, t.weight), e.negpos - 1, A.cntr,
                                            Append(e.output, appendedsym),
                                            t.targetstate, Append(e.path, tid))},
                        !.cntr = @ + 1]
                 ELSE A
        ELSE A

\* the mutant appends the producing-side symbol whatever the token is
apply_transition_keepwildcard(H, A, e, lbl, tid) ==
    LET t == H.trs[tid]
        lin == LabelAt(lbl, InIdx(A.inverse))
        lout == LabelAt(lbl, OutIdx(A.inverse))
        pos == -e.negpos
    IN  IF lin = EPSILON \/ is_flag(lin)
        THEN [A EXCEPT
                !.Q = @ \cup {Entry(WAdd(e.cost, t.weight), e.negpos, A.cntr,
                                    Append(e.output, lout), t.targetstate,
                                    Append(e.path, tid))},
                !.cntr = @ + 1]
        ELSE IF pos < Len(A.w)
        THEN LET alphabet == H.alphabets[H.fsts[A.fst].alphabet]
                 nextsym == IF A.w[pos + 1] \in alphabet THEN A.w[pos + 1] ELSE WILDCARD
             IN  IF nextsym = lin
                 THEN [A EXCEPT
                        !.Q = @ \cup {Entry(WAdd(e.cost, t.weight), e.negpos - 1, A.cntr,
                                            Append(e.output, lout),
                                            t.targetstate, Append(e.path, tid))},
                        !.cntr = @ + 1]
                 ELSE A
        ELSE A

\* the mutant does not follow a non-consuming transition that the path has
\* followed before
apply_transition_cyclecheck(H, A, e, lbl, tid) ==
    LET t == H.trs[tid]
        lin == LabelAt(lbl, InIdx(A.inverse))
        lout == LabelAt(lbl, OutIdx(A.inverse))
        pos == -e.negpos
    IN  IF lin = EPSILON \/ is_flag(lin)
        THEN IF \E k \in DOMAIN e.path : e.path[k] = tid
             THEN A
             ELSE [A EXCEPT
                    !.Q = @ \cup {Entry(WAdd(e.cost, t.weight), e.negpos, A.cntr,
                                        Append(e.output, lout), t.targetstate,
                                        Append(e.path, tid))},
                    !.cntr = @ + 1]
        ELSE IF pos < Len(A.w)
        THEN LET alphabet == H.alphabets[H.fsts[A.fst].alphabet]
                 nextsym == IF A.w[pos + 1] \in alphabet THEN A.w[pos + 1] ELSE WILDCARD
                 appendedsym == IF nextsym = WILDCARD /\ lout = WILDCARD
                                THEN A.w[pos + 1] ELSE lout
             IN  IF nextsym = lin
                 THEN [A EXCEPT
                        !.Q = @ \cup {Entry(WAdd(e.cost, t.weight), e.negpos - 1, A.cntr,
                                            Append(e.output, appendedsym),
                                            t.targetstate, Append(e.path, tid))},
                        !.cntr = @ + 1]
                 ELSE A
        ELSE A

\* the body of "for lbl, t in state.all_transitions()" for one transition
apply_transition(H, A, e, lbl, tid) ==
    LET t == H.trs[tid]
        lin == LabelAt(lbl, InIdx(A.inverse))
        lout == LabelAt(lbl, OutIdx(A.inverse))
        pos == -e.negpos
    IN  IF lin = EPSILON \/ is_flag(lin)
        THEN [A EXCEPT
                !.Q = @ \cup {Entry(WAdd(e.cost, t.weight), e.negpos, A.cntr,
                                    Append(e.output, lout), t.targetstate,
                                    Append(e.path, tid))},
                !.cntr = @ + 1]
        ELSE IF pos < Len(A.w)
        THEN LET alphabet == H.alphabets[H.fsts[A.fst].alphabet]
                 nextsym == IF A.w[pos + 1] \in alphabet THEN A.w[pos + 1] ELSE WILDCARD
                 appendedsym == IF nextsym = WILDCARD /\ lout = WILDCARD
                                THEN A.w[pos + 1] ELSE lout
             IN  IF nextsym = lin
                 THEN [A EXCEPT
                        !.Q = @ \cup {Entry(WAdd(e.cost, t.weight), e.negpos - 1, A.cntr,
                                            Append(e.output, appendedsym),
                                            t.targetstate, Append(e.path, tid))},
                        !.cntr = @ + 1]
                 ELSE A
        ELSE A

RECURSIVE apply_transitions(_, _, _, _)
apply_transitions(H, A, e, pairs) ==
    IF pairs = <<>> THEN A
    ELSE apply_transitions(H, apply_transition(H, A, e, pairs[1][1], pairs[1][2]),
                           e, Tail(pairs))

\* the elif branch of the loop for the entry popped: state is a State
apply_expand(H, A, e) ==
    LET A0 == [A EXCEPT !.Q = @ \ {e}]
        A1 == IF is_final(H, A.fst, e.state)
              THEN [A0 EXCEPT
                      !.Q = @ \cup {Entry(WAdd(e.cost, H.states[e.state].finalweight),
                                          e.negpos, A0.cntr, e.output, None, e.path)},
                      !.cntr = @ + 1]
              ELSE A0
    IN  apply_transitions(H, A1, e, StateAllTransitions(H, e.state))

\* what the generator yields for the entry popped, weights being True; tokens
\* is the result with tokenize_outputs, text the one without
apply_result(A, e) ==
    LET output == IF A.print_flags THEN e.output ELSE filter_flags(e.output)
    IN  [tokens |-> output, text |-> Join(output), cost |-> e.cost, path |-> e.path]

\* FST.words: the generator frame after Q = deque([(self.initialstate, 0.0, [])]).
\* The frame of words() keeps its entries in deque, in the order of arrival;
\* cntr counts the entries appended; Q (the heap of apply) is not used.
words_start(H, self) ==
    [fst |-> self,
     deque |-> <<[state |-> H.fsts[self].initialstate, cost |-> 0, seq |-> <<>>]>>,
     Q |-> {},
     cntr |-> 1]

\* the entries one iteration appends for the (label, transition) pairs of s
RECURSIVE words_append(_, _, _)
words_append(H, e, pairs) ==
    IF pairs = <<>> THEN <<>>
    ELSE LET t == H.trs[pairs[1][2]]
         IN  <<[state |-> t.targetstate, cost |-> WAdd(e.cost, t.weight),
                seq |-> Append(e.seq, pairs[1][1])]>>
                 \o words_append(H, e, Tail(pairs))

\* the mutant asks the State for its index by output symbol, which the
\* State computes and keeps when it has none
words_step_cacheindex(H, A) ==
    LET e == Head(A.deque)
        appended == words_append(H, e, StateAllTransitions(H, e.state))
    IN  [H |-> [H EXCEPT !.states[e.state] = transitionsout(@)],
         A |-> [A EXCEPT !.deque = Tail(@) \o appended, !.cntr = @ + Len(appended)],
         yielded |-> IF is_final(H, A.fst, e.state)
                     THEN <<[cost |-> WAdd(e.cost, H.states[e.state].finalweight),
                             seq |-> e.seq]>>
                     ELSE <<>>]

\* the mutant yields the cost of the transitions without the final weight
words_step_nofinalweight(H, A) ==
    LET e == Head(A.deque)
        appended == words_append(H, e, StateAllTransitions(H, e.state))
    IN  [H |-> H,
         A |-> [A EXCEPT !.deque = Tail(@) \o appended, !.cntr = @ + Len(appended)],
         yielded |-> IF is_final(H, A.fst, e.state)
                     THEN <<[cost |-> e.cost, seq |-> e.seq]>>
                     ELSE <<>>]

\* one iteration of the loop of words(): popleft, the yield when s is final,
\* and the appends; H is the heap the iteration leaves
words_step(H, A) ==
    LET e == Head(A.deque)
        appended == words_append(H, e, StateAllTransitions(H, e.state))
    IN  [H |-> H,
         A |-> [A EXCEPT !.deque = Tail(@) \o appended, !.cntr = @ + Len(appended)],
         yielded |-> IF is_final(H, A.fst, e.state)
                     THEN <<[cost |-> WAdd(e.cost, H.states[e.state].finalweight),
                             seq |-> e.seq]>>
                     ELSE <<>>]

\* the strings an acceptor accepts from state s on, each the sequence of the
\* symbols other than epsilon along an accepting path; for acyclic automata
RECURSIVE Language(_, _, _)
Language(H, self, s) ==
    LET pairs == StateAllTransitions(H, s)
    IN  (IF is_final(H, self, s) THEN {<<>>} ELSE {})
            \cup UNION {{(IF LabelIn(pairs[k][1]) = EPSILON THEN <<>>
                          ELSE <<LabelIn(pairs[k][1])>>) \o v :
                            v \in Language(H, self, H.trs[pairs[k][2]].targetstate)} :
                        k \in DOMAIN pairs}

\* what is left of the strings of L after the prefix u
Residual(L, u) ==
    {SubSeq(v, Len(u) + 1, Len(v)) :
        v \in {x \in L : Len(x) >= Len(u) /\ SubSeq(x, 1, Len(u)) = u}}

Prefixes(L) == UNION {{SubSeq(v, 1, n) : n \in 0..Len(v)} : v \in L}

\* the members of a set one after the other, in some order
RECURSIVE Enumerate(_)
Enumerate(S) ==
    IF S = {} THEN <<>>
    ELSE LET x == CHOOSE y \in S : TRUE IN <<x>> \o Enumerate(S \ {x})

\* the transitions of the minimal deterministic acceptor whose states are
\* the residuals in Qs, added source by source
RECURSIVE add_residual_arcs(_, _, _, _)
add_residual_arcs(H, base, Qs, todo) ==
    IF todo = <<>> THEN H
    ELSE LET source == todo[1][1]
             sym == todo[1][2]
             target == CHOOSE k \in DOMAIN Qs : Qs[k] = Residual(Qs[source], <<sym>>)
         IN  add_residual_arcs(add_transition(H, base + source, base + target, <<sym>>, 0),
                               base, Qs, Tail(todo))

\* lex.determinize_as_dfa().minimize().label_states_topology(): the methods
\* belong to the algebraic layer.  The automaton returned is a new FST, the
\* minimal deterministic acceptor of the strings lex accepts: one state for
\* every residual of the language, the language itself at the initial state,
\* one transition of weight 0 for every symbol a residual can start with,
\* final weight 0 where the residual holds the empty string, and the states
\* named by their number.
determinize_as_dfa_minimize(H, lex) ==
    LET L == Language(H, lex, H.fsts[lex].initialstate)
        Qs == <<L>> \o Enumerate({Residual(L, u) : u \in Prefixes(L)} \ {L})
        newfst == NewFst(H)
        base == Len(H.states)
        H1 == FST_init([H EXCEPT !.alphabets = Append(@, H.alphabets[H.fsts[lex].alphabet])],
                       NoLabel, 0, Len(H.alphabets) + 1)
        H2 == [H1 EXCEPT
                !.states = H.states \o [k \in DOMAIN Qs |->
                                State(IF <<>> \in Qs[k] THEN 0 ELSE Inf, ToString(k - 1))],
                !.sets[H1.fsts[newfst].states] = {base + k : k \in DOMAIN Qs},
                !.sets[H1.fsts[newfst].finalstates] =
                    {base + k : k \in {j \in DOMAIN Qs : <<>> \in Qs[j]}}]
        todo == Enumerate(UNION {{<<k, v[1]>> : v \in Qs[k] \ {<<>>}} : k \in DOMAIN Qs})
    IN  add_residual_arcs(H2, base, Qs, todo)

\* FST.from_strings(strings), multichar_symbols being None.  strings is the
\* sequence the iterable gives; order is as for rlg.
from_strings(H, strings, order) ==
    LET Grammar == [name \in {"Start"} |->
                        [k \in DOMAIN strings |->
                            [lhs |-> <<strings[k]>>, target |-> TERMINAL,
                             weight |-> NoWeight]]]
        lex == NewFst(H)
    IN  determinize_as_dfa_minimize(rlg(H, Grammar, "Start", order), lex)

Heap == [states |-> states, trs |-> trs, fsts |-> fsts, alphabets |-> alphabets, sets |-> sets]

----------------------------------------------------------------------------
(* Specification SpecState: the operations of class State on two objects *)

StateIds == DOMAIN states
StLabels == {<<SymA>>, <<SymA, SymB>>, <<SymB>>}
StWeights == {0, 1}

NoOp == [op |-> "none", self |-> 0, args |-> <<>>, ret |-> <<>>]

\* no generator yet
NoApply == [fst |-> 0]

InitState ==
    /\ states = <<State(Inf, NoName), State(Inf, NoName)>>
    /\ trs = <<>>
    /\ fsts = <<>>
    /\ alphabets = <<{}>>
    /\ sets = <<>>
    /\ lastop = NoOp
    /\ ap = NoApply
    /\ out = <<>>

AddTransition(self, other, label, weight) ==
    /\ Len(trs) < MaxTrans
    /\ LET H == add_transition(Heap, self, other, label, weight)
       IN  /\ states' = H.states
           /\ trs' = H.trs
    /\ lastop' = [op |-> "add_transition", self |-> self,
                  args |-> <<other, label, weight>>, ret |-> <<>>]
    /\ UNCHANGED <<fstvars, appvars>>

RemoveTransitionsToTargets(self, targets) ==
    /\ LET H == remove_transitions_to_targets(Heap, self, targets)
       IN  /\ states' = H.states
           /\ trs' = H.trs
    /\ lastop' = [op |-> "remove_transitions_to_targets", self |-> self,
                  args |-> <<targets>>, ret |-> <<>>]
    /\ UNCHANGED <<fstvars, appvars>>

RenameLabel(self, original, new) ==
    /\ rename_label_enabled(Heap, self, original)
    /\ LET H == rename_label(Heap, self, original, new)
       IN  /\ states' = H.states
           /\ trs' = H.trs
    /\ lastop' = [op |-> "rename_label", self |-> self,
                  args |-> <<original, new>>, ret |-> <<>>]
    /\ UNCHANGED <<fstvars, appvars>>

ReadTransitionsIn(self) ==
    /\ states' = [states EXCEPT ![self] = transitionsin(@)]
    /\ lastop' = [op |-> "transitionsin", self |-> self, args |-> <<>>,
                  ret |-> states'[self].tin.map]
    /\ UNCHANGED <<trs, fstvars, appvars>>

ReadTransitionsOut(self) ==
    /\ states' = [states EXCEPT ![self] = transitionsout(@)]
    /\ lastop' = [op |-> "transitionsout", self |-> self, args |-> <<>>,
                  ret |-> states'[self].tout.map]
    /\ UNCHANGED <<trs, fstvars, appvars>>

NextState ==
    \/ \E self \in StateIds, other \in StateIds, label \in StLabels, weight \in StWeights :
            AddTransition(self, other, label, weight)
    \/ \E self \in StateIds, targets \in SUBSET StateIds :
            RemoveTransitionsToTargets(self, targets)
    \/ \E self \in StateIds, original \in StLabels, new \in StLabels :
            RenameLabel(self, original, new)

SpecState == InitState /\ [][NextState]_vars

\* the same operations interleaved with reads of the two lazy indices
MaxIndexTrans == 2

\* the State object whose indices are read
IndexSelf == 1

NextIndex ==
    \/ \E other \in StateIds, label \in StLabels, weight \in {0} :
            Len(trs) < MaxIndexTrans /\ AddTransition(IndexSelf, other, label, weight)
    \/ \E targets \in SUBSET StateIds : RemoveTransitionsToTargets(IndexSelf, targets)
    \/ \E original \in StLabels, new \in StLabels : RenameLabel(IndexSelf, original, new)
    \/ ReadTransitionsIn(IndexSelf)
    \/ ReadTransitionsOut(IndexSelf)

SpecIndex == InitState /\ [][NextIndex]_vars

----------------------------------------------------------------------------
(* Specification SpecBuild: the constructors of FST and the operations that
   make an FST from others.  The first FST is made by FST(), character_ranges
   or rlg; the later ones are made from the FSTs there are. *)

\* FST objects ever created
MaxFsts == 2

BuildLabels == {NoLabel, <<EPSILON>>, <<SymA>>, <<SymA, SymB>>, <<WILDCARD>>}
BuildWeights == {0, 1, Inf}
CodePoints == 1..2
BuildPairs == {<<start, end>> : start \in CodePoints, end \in CodePoints}
BuildRanges == {<<>>} \cup {<<r>> : r \in BuildPairs} \cup {<<r, q>> : r \in BuildPairs, q \in BuildPairs}

Rule(lhs, target, weight) == [lhs |-> lhs, target |-> target, weight |-> weight]
GrammarCat == [name \in {"Start"} |-> <<Rule(<<<<"c", "a">>>>, TERMINAL, NoWeight)>>]
GrammarPair ==
    [name \in {"Start", "Mid"} |->
        IF name = "Start"
        THEN <<Rule(<<<<"a">>, <<"b", "b">>>>, "Mid", 1)>>
        ELSE <<Rule(<<<<"b">>>>, TERMINAL, NoWeight), Rule(<<<<>>>>, "Start", NoWeight)>>]
GrammarTwice ==
    [name \in {"Start"} |-> <<Rule(<<<<"a">>>>, TERMINAL, 2), Rule(<<<<"a">>>>, TERMINAL, NoWeight)>>]
GrammarUndeclared == [name \in {"Start"} |-> <<Rule(<<<<"a">>>>, "Nowhere", NoWeight)>>]
GrammarSilent == [name \in {"Start"} |-> <<Rule(<<<<NEWLINE>>>>, "Nowhere", NoWeight)>>]
BuildGrammars == {GrammarCat, GrammarPair, GrammarTwice, GrammarUndeclared, GrammarSilent}
BuildStarts == {"Start", TERMINAL, "Nowhere"}

\* the orders in which a set can be iterated
Orders(S) ==
    {order \in [1..Cardinality(S) -> S] :
        \A j, k \in 1..Cardinality(S) : j # k => order[j] # order[k]}

InitBuild ==
    /\ states = <<>>
    /\ trs = <<>>
    /\ fsts = <<>>
    /\ alphabets = <<{}>>
    /\ sets = <<>>
    /\ lastop = NoOp
    /\ ap = NoApply
    /\ out = <<>>

Install(H) ==
    /\ states' = H.states
    /\ trs' = H.trs
    /\ fsts' = H.fsts
    /\ alphabets' = H.alphabets
    /\ sets' = H.sets

NewFST(label, weight) ==
    /\ fsts = <<>>
    /\ Install(FST_init(Heap, label, weight, DefaultAlphabet))
    /\ lastop' = [op |-> "FST", self |-> NewFst(Heap), args |-> <<label, weight>>,
                  ret |-> NewFst(Heap)]
    /\ UNCHANGED appvars

CharacterRanges(ranges, complement) ==
    /\ fsts = <<>>
    /\ Install(character_ranges(Heap, ranges, complement))
    /\ lastop' = [op |-> "character_ranges", self |-> NewFst(Heap),
                  args |-> <<ranges, complement>>, ret |-> NewFst(Heap)]
    /\ UNCHANGED appvars

Rlg(grammar, startsymbol, order) ==
    /\ fsts = <<>>
    /\ rlg_enabled(grammar, startsymbol)
    /\ Install(rlg(Heap, grammar, startsymbol, order))
    /\ lastop' = [op |-> "rlg", self |-> NewFst(Heap),
                  args |-> <<grammar, startsymbol, order>>, ret |-> NewFst(Heap)]
    /\ UNCHANGED appvars

\* rlg raises KeyError: the caller gets no automaton, and the objects made
\* before the exception are out of reach
RlgRaises(grammar, startsymbol, order) ==
    /\ fsts = <<>>
    /\ ~rlg_enabled(grammar, startsymbol)
    /\ lastop' = [op |-> "rlg", self |-> NewFst(Heap),
                  args |-> <<grammar, startsymbol, order>>, ret |-> None]
    /\ UNCHANGED <<states, trs, fstvars, appvars>>

CopyMod(self, ml, mw) ==
    /\ Len(fsts) < MaxFsts
    /\ copy_enabled(Heap, self)
    /\ Install(copy_mod(Heap, self, ml, mw))
    /\ lastop' = [op |-> "copy_mod", self |-> self, args |-> <<ml, mw>>,
                  ret |-> NewFst(Heap)]
    /\ UNCHANGED appvars

CopyFiltered(self, lf) ==
    /\ Len(fsts) < MaxFsts
    /\ copy_enabled(Heap, self)
    /\ Install(copy_filtered(Heap, self, lf))
    /\ lastop' = [op |-> "copy_filtered", self |-> self, args |-> <<lf>>,
                  ret |-> NewFst(Heap)]
    /\ UNCHANGED appvars

Become(self, other) ==
    /\ Install(become(Heap, self, other))
    /\ lastop' = [op |-> "become", self |-> self, args |-> <<other>>, ret |-> self]
    /\ UNCHANGED appvars

NextBuild ==
    \/ \E label \in BuildLabels, weight \in BuildWeights : NewFST(label, weight)
    \/ \E ranges \in BuildRanges, complement \in BOOLEAN : CharacterRanges(ranges, complement)
    \/ \E grammar \in BuildGrammars, startsymbol \in BuildStarts :
            \E order \in Orders((DOMAIN grammar) \cup {TERMINAL}) :
                Rlg(grammar, startsymbol, order)
    \/ \E grammar \in BuildGrammars, startsymbol \in BuildStarts :
            \E order \in Orders((DOMAIN grammar) \cup {TERMINAL}) :
                RlgRaises(grammar, startsymbol, order)
    \/ \E self \in DOMAIN fsts, ml \in ModLabels, mw \in ModWeights : CopyMod(self, ml, mw)
    \/ \E self \in DOMAIN fsts, lf \in LabelFilters : CopyFiltered(self, lf)
    \/ \E self \in DOMAIN fsts, other \in DOMAIN fsts : Become(self, other)

SpecBuild == InitBuild /\ [][NextBuild]_vars

----------------------------------------------------------------------------
(* Specification SpecApply: one call of apply() on an automaton made by
   FST((x,)) or put together from State objects and add_transition the way the
   algorithms of the package do; every step is one iteration of "while Q". *)

\* transitions of an automaton put together by hand
MaxArcs == 3

\* entries ever pushed on Q by one call: the search of an automaton with a
\* cycle of non-consuming transitions does not end
MaxPush == 20

SymAB == <<"a", "b">>
ApplySymbols == {SymA, SymAB, EPSILON, WILDCARD, FLAG}

Arc(source, target, label, weight) ==
    [source |-> source, target |-> target, label |-> label, weight |-> weight]

ArcUniverse ==
    << Arc(1, 2, <<SymA>>, 0),
       Arc(1, 2, <<SymA>>, 1),
       Arc(1, 2, <<SymA, SymB>>, 2),
       Arc(1, 2, <<EPSILON>>, 1),
       Arc(2, 1, <<EPSILON, SymA>>, 0),
       Arc(2, 2, <<SymB>>, 0),
       Arc(1, 2, <<WILDCARD>>, 0),
       Arc(1, 2, <<FLAG>>, 0),
       Arc(2, 3, <<SymA>>, 0),
       Arc(1, 2, <<WILDCARD, SymA>>, 1),
       Arc(2, 2, <<EPSILON>>, 1) >>

ArcSets == {S \in SUBSET DOMAIN ArcUniverse : Cardinality(S) <= MaxArcs}

\* the final weights of the three states; Inf is a state that is not final,
\* and one automaton has a negative weight
FinalConfigs == {<<Inf, 0, 0>>, <<Inf, 1, 0>>, <<0, Inf, 1>>, <<Inf, 0, -1>>}

RECURSIVE add_arcs(_, _)
add_arcs(H, arcs) ==
    IF arcs = <<>> THEN H
    ELSE LET arc == ArcUniverse[arcs[1]]
         IN  add_arcs(add_transition(H, arc.source, arc.target, arc.label, arc.weight),
                      Tail(arcs))

\* newfst = FST(alphabet=...), two more State objects in newfst.states, the
\* final ones in newfst.finalstates, the transitions added in order; the
\* alphabet holds the symbols of the labels
MakeGraph(arcs, finalweights) ==
    LET alphabet == UNION {{ArcUniverse[k].label[j] : j \in DOMAIN ArcUniverse[k].label} :
                            k \in arcs}
        H0 == [EmptyHeap EXCEPT !.alphabets = Append(@, alphabet \ {EPSILON})]
        H1 == FST_init(H0, NoLabel, 0, Len(H0.alphabets))
        self == NewFst(H0)
        H2 == [H1 EXCEPT
                !.states = @ \o <<State(Inf, NoName), State(Inf, NoName)>>,
                !.sets[H1.fsts[self].states] = @ \cup {2, 3}]
        H3 == [H2 EXCEPT
                !.states = [s \in DOMAIN @ |-> [@[s] EXCEPT !.finalweight = finalweights[s]]],
                !.sets[H2.fsts[self].finalstates] =
                    {s \in DOMAIN finalweights : finalweights[s] # Inf}]
    IN  add_arcs(H3, SetToSeq(arcs))

\* grammars for rlg: the rule-set Start with the single rule (s, "#") or
\* (s, "#", weight), and the grammars of SpecBuild that compile
RlgStrings == {<<"a">>, <<"a", "b">>, <<"b", "a">>, <<NEWLINE>>, <<"a", NEWLINE, "b">>}
RlgWeights == {NoWeight, 0, 2}
SingleRule(s, weight) ==
    [name \in {"Start"} |-> <<Rule(<<s>>, TERMINAL, weight)>>]
\* {"Start": [(("'ab'", "ab"), "#")]}: the symbol ab on the input side, the
\* symbols a and b on the output side
GrammarQuoted ==
    [name \in {"Start"} |->
        <<Rule(<<<<QUOTE, "a", "b", QUOTE>>, <<"a", "b">>>>, TERMINAL, NoWeight)>>]
RlgGrammars ==
    {SingleRule(s, weight) : s \in RlgStrings, weight \in RlgWeights}
        \cup {GrammarCat, GrammarPair, GrammarTwice, GrammarQuoted}
RlgWords == {<<>>, <<"a">>, <<"b">>, <<"a", "b">>, <<"b", "a">>, <<"c", "a">>} \cup RlgStrings

LabelWords == {<<>>, <<"a">>, <<"b">>, <<"a", "a">>, <<"a", "b">>, <<".">>, FLAG}
GraphWords == {<<>>, <<"a">>, <<"b">>, <<"a", "a">>, <<"a", "b">>, <<"b", "a">>}

\* the automaton has a flag diacritic on a label
HasFlags(H) ==
    \E t \in DOMAIN H.trs : \E j \in DOMAIN H.trs[t].label : is_flag(H.trs[t].label[j])

ApplyAutomata ==
    {[H |-> FST_init(EmptyHeap, <<x>>, 0, DefaultAlphabet),
      op |-> [op |-> "FST", self |-> 1, args |-> <<<<x>>, 0>>, ret |-> 1],
      words |-> LabelWords] : x \in ApplySymbols}
    \cup
    {[H |-> MakeGraph(arcs, finalweights),
      op |-> [op |-> "graph", self |-> 1, args |-> <<arcs, finalweights>>, ret |-> 1],
      words |-> GraphWords] : arcs \in ArcSets, finalweights \in FinalConfigs}
    \cup
    UNION {{[H |-> rlg(EmptyHeap, grammar, "Start", order),
             op |-> [op |-> "rlg", self |-> 1, args |-> <<grammar, "Start", order>>,
                     ret |-> 1],
             words |-> RlgWords] : order \in Orders((DOMAIN grammar) \cup {TERMINAL})} :
           grammar \in RlgGrammars}

InitApply ==
    \E M \in ApplyAutomata :
        /\ states = M.H.states
        /\ trs = M.H.trs
        /\ fsts = M.H.fsts
        /\ alphabets = M.H.alphabets
        /\ sets = M.H.sets
        /\ lastop = M.op
        /\ out = <<>>
        /\ \E word \in M.words, inverse \in BOOLEAN, obey_flags \in BOOLEAN,
              print_flags \in BOOLEAN :
                /\ print_flags => HasFlags(M.H)
                /\ ap = apply_start(M.H, 1, word, inverse, obey_flags, print_flags)

\* the entry popped is a finished path at the end of the word, and it passes
\* the flag filter if there is one: it is yielded
ApplyYield ==
    /\ ap.Q # {}
    /\ LET e == heappop(ap.Q)
       IN  /\ e.state = None
           /\ -e.negpos = Len(ap.w)
           /\ ~ap.obey_flags \/ TRUE \in flag_filter_answers(e.output)
           /\ out' = Append(out, apply_result(ap, e))
           /\ ap' = [ap EXCEPT !.Q = @ \ {e}]
    /\ UNCHANGED <<states, trs, fstvars, lastop>>

\* the entry popped is at a State: the elif branch
ApplyExpand ==
    /\ ap.Q # {}
    /\ ap.cntr < MaxPush
    /\ LET e == heappop(ap.Q)
       IN  /\ e.state # None
           /\ ap' = apply_expand(Heap, ap, e)
    /\ UNCHANGED <<states, trs, fstvars, lastop, out>>

\* the entry popped is a finished path that is not at the end of the word or
\* that the flag filter rejects: neither branch is taken
ApplyDrop ==
    /\ ap.Q # {}
    /\ LET e == heappop(ap.Q)
       IN  /\ e.state = None
           /\ \/ -e.negpos # Len(ap.w)
              \/ ap.obey_flags /\ FALSE \in flag_filter_answers(e.output)
           /\ ap' = [ap EXCEPT !.Q = @ \ {e}]
    /\ UNCHANGED <<states, trs, fstvars, lastop, out>>

NextApply ==
    \/ ApplyYield
    \/ ApplyExpand
    \/ ApplyDrop

SpecApply == InitApply /\ [][NextApply]_vars


\* the searches whose end is looked at: generate on the graphs over four of
\* the arcs, an epsilon loop at the second state and a cycle of a flag
\* diacritic and an epsilon through the initial state among them
InitApplyLive ==
    /\ InitApply
    /\ lastop.op = "graph"
    /\ lastop.args[1] \subseteq {1, 5, 8, 11}
    /\ lastop.args[2] \in {<<Inf, 0, 0>>, <<0, Inf, 1>>}
    /\ ap.word \in {<<>>, <<"a">>, <<"a", "b">>}
    /\ ~ap.inverse
    /\ ~ap.print_flags

\* the caller keeps asking the generator for its next value: the loop of
\* apply goes on as long as it has an iteration to make
SpecApplyLive == InitApplyLive /\ [][NextApply]_vars /\ WF_vars(NextApply)

----------------------------------------------------------------------------
(* Specification SpecTokenize: tokenize_against_alphabet on one FST object
   whose alphabet was declared by the caller *)

\* characters of a word
MaxWordLen == 3

TokSymbols == {<<"a">>, <<"a", "b">>, <<"a", "b", "a">>, <<"b", "b">>, <<"b", "a", "b">>}
TokWords == UNION {[1..n -> {"a", "b"}] : n \in 0..MaxWordLen}

InitTokenize ==
    \E alphabet \in SUBSET TokSymbols :
        LET H0 == [EmptyHeap EXCEPT !.alphabets = Append(@, alphabet)]
            H == FST_init(H0, NoLabel, 0, Len(H0.alphabets))
        IN  /\ states = H.states
            /\ trs = H.trs
            /\ fsts = H.fsts
            /\ alphabets = H.alphabets
            /\ sets = H.sets
            /\ lastop = NoOp
            /\ ap = NoApply
            /\ out = <<>>

Tokenize(self, word) ==
    /\ lastop' = [op |-> "tokenize_against_alphabet", self |-> self, args |-> <<word>>,
                  ret |-> tokenize_against_alphabet(alphabets[fsts[self].alphabet], word)]
    /\ UNCHANGED <<states, trs, fstvars, appvars>>

NextTokenize == \E self \in DOMAIN fsts, word \in TokWords : Tokenize(self, word)

SpecTokenize == InitTokenize /\ [][NextTokenize]_vars

----------------------------------------------------------------------------
(* Specification SpecTraverse: generate, analyze and words called one after
   the other on one automaton; a call may come before the generator of the
   call before it is exhausted, which abandons that generator *)

\* transitions of the automaton traversed
MaxTraverseArcs == 2
\* calls made on the automaton
MaxCalls == 3

TraverseAutomata == {M \in ApplyAutomata : Len(M.H.trs) <= MaxTraverseArcs}
TraverseWords == {<<>>, <<"a">>, <<"a", "b">>}

\* the generator has entries left: a call made now abandons it part-way
Pending(A) == IF "deque" \in DOMAIN A THEN A.deque # <<>> ELSE A.Q # {}

\* the call number n is generate(word) or analyze(word); abandoned notes
\* whether the generator of the call before it had entries left
CallApply(n, word, inverse) ==
    /\ lastop' = [op |-> IF inverse THEN "analyze" ELSE "generate", self |-> 1,
                  args |-> <<word>>, ret |-> n, abandoned |-> Pending(ap)]
    /\ ap' = apply_start(Heap, 1, word, inverse, TRUE, FALSE)
    /\ out' = <<>>
    /\ UNCHANGED <<states, trs, fstvars>>

\* the call number n is words()
CallWords(n) ==
    /\ lastop' = [op |-> "words", self |-> 1, args |-> <<>>, ret |-> n,
                  abandoned |-> Pending(ap)]
    /\ ap' = words_start(Heap, 1)
    /\ out' = <<>>
    /\ UNCHANGED <<states, trs, fstvars>>

InitTraverse ==
    \E M \in TraverseAutomata :
        /\ states = M.H.states
        /\ trs = M.H.trs
        /\ fsts = M.H.fsts
        /\ alphabets = M.H.alphabets
        /\ sets = M.H.sets
        /\ lastop = [op |-> "words", self |-> 1, args |-> <<>>, ret |-> 1,
                     abandoned |-> FALSE]
        /\ ap = words_start(M.H, 1)
        /\ out = <<>>

\* the caller asks the generator of words() for its next value: one iteration
WordsStep ==
    /\ "deque" \in DOMAIN ap
    /\ ap.deque # <<>>
    /\ ap.cntr < MaxPush
    /\ LET R == words_step(Heap, ap)
       IN  /\ states' = R.H.states
           /\ trs' = R.H.trs
           /\ fsts' = R.H.fsts
           /\ alphabets' = R.H.alphabets
           /\ sets' = R.H.sets
           /\ ap' = R.A
           /\ out' = out \o R.yielded
    /\ UNCHANGED lastop

NextTraverse ==
    \/ \E word \in TraverseWords, inverse \in BOOLEAN :
          lastop.ret < MaxCalls /\ CallApply(lastop.ret + 1, word, inverse)
    \/ lastop.ret < MaxCalls /\ CallWords(lastop.ret + 1)
    \/ WordsStep
    \/ ApplyYield
    \/ ApplyExpand
    \/ ApplyDrop

SpecTraverse == InitTraverse /\ [][NextTraverse]_vars


\* words() on the automata of at most two transitions
InitWordsLive == InitTraverse /\ Len(trs) <= 2

\* the caller keeps asking the generator of words() for its next value
SpecWordsLive == InitWordsLive /\ [][WordsStep]_vars /\ WF_vars(WordsStep)

----------------------------------------------------------------------------
(* Specification SpecWords: words() on the automaton of from_strings *)

\* strings given to from_strings
MaxStrings == 2

FromStrings ==
    {<<>>, <<"a">>, <<"b">>, <<"a", "b">>, <<"b", "a">>, <<"a", "b", "a">>,
     <<"a", SPACE, "b">>, <<"a", NEWLINE, "b">>, <<QUOTE, "a", "b", QUOTE>>}

\* the orders in which a set of strings can be iterated
StringSeqs == UNION {Orders(S) : S \in {T \in SUBSET FromStrings : Cardinality(T) <= MaxStrings}}

InitWords ==
    \E strings \in StringSeqs, order \in Orders({"Start", TERMINAL}) :
        LET H == from_strings(EmptyHeap, strings, order)
        IN  /\ states = H.states
            /\ trs = H.trs
            /\ fsts = H.fsts
            /\ alphabets = H.alphabets
            /\ sets = H.sets
            /\ lastop = [op |-> "from_strings", self |-> 2,
                         args |-> <<{strings[k] : k \in DOMAIN strings}>>, ret |-> 2]
            /\ ap = words_start(H, 2)
            /\ out = <<>>

NextWords == WordsStep

SpecWords == InitWords /\ [][NextWords]_vars

----------------------------------------------------------------------------
(* Specification SpecAlphabet: automata made by constructor calls that pass
   no alphabet, and in-place updates of the alphabet of one of them *)

\* FST(), FST(('',)) or FST(('a',)); the default of the parameter alphabet is
\* the one set object made when the def statement ran
Construct(label) ==
    /\ Len(fsts) < MaxFsts
    /\ Install(FST_init(Heap, label, 0, DefaultAlphabet))
    /\ lastop' = [op |-> "FST", self |-> NewFst(Heap), args |-> <<label, 0>>,
                  ret |-> NewFst(Heap)]
    /\ UNCHANGED appvars

\* self.alphabet.add(sym), or self.alphabet |= {sym}
AlphabetAdd(self, sym) ==
    /\ alphabets' = [alphabets EXCEPT ![fsts[self].alphabet] = @ \cup {sym}]
    /\ lastop' = [op |-> "alphabet.add", self |-> self, args |-> <<sym>>, ret |-> <<>>]
    /\ UNCHANGED <<states, trs, fsts, sets, appvars>>

CleanupSigma(self) ==
    /\ Install(cleanup_sigma(Heap, self))
    /\ lastop' = [op |-> "cleanup_sigma", self |-> self, args |-> <<>>, ret |-> self]
    /\ UNCHANGED appvars

NextAlphabet ==
    \/ \E label \in {NoLabel, <<EPSILON>>, <<SymA>>} : Construct(label)
    \/ \E self \in DOMAIN fsts, sym \in {SymA, SymB} : AlphabetAdd(self, sym)
    \/ \E self \in DOMAIN fsts : CleanupSigma(self)

SpecAlphabet == InitBuild /\ [][NextAlphabet]_vars

----------------------------------------------------------------------------
(* Specification SpecBecome: become between two automata that were made from
   a label each, so that each has containers of its own, and structural
   changes made through one of them afterwards *)

\* State objects, those of the two automata included
MaxStates == 6

\* a = FST(('a',)); b = FST(('b',), 1)
InitBecome ==
    LET H == FST_init(FST_init(EmptyHeap, <<SymA>>, 0, DefaultAlphabet),
                      <<SymB>>, 1, DefaultAlphabet)
    IN  /\ states = H.states
        /\ trs = H.trs
        /\ fsts = H.fsts
        /\ alphabets = H.alphabets
        /\ sets = H.sets
        /\ lastop = [op |-> "FST", self |-> 2, args |-> <<<<SymB>>, 1>>, ret |-> 2]
        /\ ap = NoApply
        /\ out = <<>>

\* self.states.add(State())
StatesAdd(self) ==
    /\ Len(states) < MaxStates
    /\ states' = Append(states, State(Inf, NoName))
    /\ sets' = [sets EXCEPT ![fsts[self].states] = @ \cup {Len(states) + 1}]
    /\ lastop' = [op |-> "states.add", self |-> self, args |-> <<Len(states) + 1>>,
                  ret |-> <<>>]
    /\ UNCHANGED <<trs, fsts, alphabets, appvars>>

NextBecome ==
    \/ \E self \in DOMAIN fsts, other \in DOMAIN fsts : Become(self, other)
    \/ \E self \in DOMAIN fsts : StatesAdd(self)
    \/ \E self \in DOMAIN fsts, sym \in {SymA, SymB, SymAB} : AlphabetAdd(self, sym)

SpecBecome == InitBecome /\ [][NextBecome]_vars

----------------------------------------------------------------------------
(* Specification SpecCopy: an automaton is copied with the default filter, and
   the states and the alphabets of the original and of the copy are changed
   before and after *)

\* Transition objects ever created, those of the copies included
MaxCopyTrans == 3

\* the originals: graphs of one transition
InitCopy ==
    \E arcs \in {S \in SUBSET {1, 5, 9} : Cardinality(S) = 1},
       finalweights \in {<<Inf, 0, 0>>, <<0, Inf, 1>>} :
        LET H == MakeGraph(arcs, finalweights)
        IN  /\ states = H.states
            /\ trs = H.trs
            /\ fsts = H.fsts
            /\ alphabets = H.alphabets
            /\ sets = H.sets
            /\ lastop = [op |-> "graph", self |-> 1, args |-> <<arcs, finalweights>>,
                         ret |-> 1]
            /\ ap = NoApply
            /\ out = <<>>

\* copy.copy(self)
Copy(self) ==
    /\ Len(fsts) < MaxFsts
    /\ copy_enabled(Heap, self)
    /\ Install(copy_filtered(Heap, self, "all"))
    /\ lastop' = [op |-> "copy", self |-> self, args |-> <<>>, ret |-> NewFst(Heap)]
    /\ UNCHANGED appvars

CopyAddTransition(self, other, label, weight) ==
    /\ Len(trs) < MaxCopyTrans
    /\ LET H == add_transition(Heap, self, other, label, weight)
       IN  /\ states' = H.states
           /\ trs' = H.trs
    /\ lastop' = [op |-> "add_transition", self |-> self,
                  args |-> <<other, label, weight>>, ret |-> <<>>]
    /\ UNCHANGED <<fstvars, appvars>>

\* the State objects changed are the initial states: a loop is added to one,
\* its transitions into its own automaton are removed, its label is renamed
NextCopy ==
    \/ \E self \in DOMAIN fsts : Copy(self)
    \/ \E f \in DOMAIN fsts :
            CopyAddTransition(fsts[f].initialstate, fsts[f].initialstate, <<SymA>>, 0)
    \/ \E f \in DOMAIN fsts :
            RemoveTransitionsToTargets(fsts[f].initialstate, sets[fsts[f].states])
    \/ \E f \in DOMAIN fsts : RenameLabel(fsts[f].initialstate, <<SymA>>, <<SymB>>)
    \/ \E self \in DOMAIN fsts : AlphabetAdd(self, SymB)

SpecCopy == InitCopy /\ [][NextCopy]_vars

----------------------------------------------------------------------------
(* save_att and todict: the numbering of the states.  Both walk the automaton
   breadth-first from the initial state with a deque; the labels of a state
   are visited in sorted order and the transitions of a label by weight.
   Transitions of one label and one weight come in the iteration order of a
   set, which rank stands for. *)

\* ord(c) of the characters of the symbols
OrdOf(c) ==
    CASE c = "." -> 46 [] c = "@" -> 64 [] c = "C" -> 67 [] c = "X" -> 88
      [] c = "a" -> 97 [] c = "b" -> 98

\* x < y on str
RECURSIVE StrLess(_, _)
StrLess(x, y) ==
    IF y = <<>> THEN FALSE
    ELSE IF x = <<>> THEN TRUE
    ELSE IF x[1] = y[1] THEN StrLess(Tail(x), Tail(y))
    ELSE OrdOf(x[1]) < OrdOf(y[1])

\* l < m on tuples of str
RECURSIVE LabelLess(_, _)
LabelLess(l, m) ==
    IF m = <<>> THEN FALSE
    ELSE IF l = <<>> THEN TRUE
    ELSE IF l[1] = m[1] THEN LabelLess(Tail(l), Tail(m))
    ELSE StrLess(l[1], m[1])

\* the transition t comes before u in
\* "for label, arcs in sorted(state.transitions.items(), key=itemgetter(0)):
\*      for arc in sorted(arcs, key=attrgetter('weight')):"
ArcBefore(H, rank, t, u) ==
    \/ LabelLess(H.trs[t].label, H.trs[u].label)
    \/ /\ H.trs[t].label = H.trs[u].label
       /\ \/ H.trs[t].weight < H.trs[u].weight
          \/ H.trs[t].weight = H.trs[u].weight /\ rank[t] < rank[u]

RECURSIVE SortArcs(_, _, _)
SortArcs(H, rank, S) ==
    IF S = {} THEN <<>>
    ELSE LET t == CHOOSE x \in S : \A u \in S \ {x} : ArcBefore(H, rank, x, u)
         IN  <<t>> \o SortArcs(H, rank, S \ {t})

\* the transitions of a state in the order of the two nested loops
SortedArcs(H, rank, state) ==
    SortArcs(H, rank, UNION {H.states[state].transitions[label] :
                                label \in DOMAIN H.states[state].transitions})

\* the first loop of save_att: a state is entered in ssymtab when it is taken
\* from the deque, and a target is put on the deque when it is not in ssymtab
RECURSIVE save_att_number(_, _, _, _, _, _, _)
save_att_number(H, rank, state_symbols, q, states_, ssyms, ssymtab) ==
    IF q = <<>> THEN [states |-> states_, ssyms |-> ssyms, ssymtab |-> ssymtab]
    ELSE LET state == Head(q)
             name == IF H.states[state].name = NoName \/ ~state_symbols
                     THEN ToString(Len(ssyms))
                     ELSE H.states[state].name
             ssymtab1 == DictPut(ssymtab, state, name)
             arcs == SortedArcs(H, rank, state)
             found == SelectSeq(arcs, LAMBDA t : H.trs[t].targetstate \notin DOMAIN ssymtab1)
         IN  save_att_number(H, rank, state_symbols,
                             Tail(q) \o [k \in DOMAIN found |-> H.trs[found[k]].targetstate],
                             Append(states_, state), Append(ssyms, name), ssymtab1)

\* output_state for the states of the list from the k-th on: a line per
\* transition, then the line of a final state
RECURSIVE save_att_lines(_, _, _, _, _)
save_att_lines(H, self, rank, N, k) ==
    IF k > Len(N.states) THEN <<>>
    ELSE LET s == N.states[k]
             arcs == SortedArcs(H, rank, s)
             name == N.ssymtab[s]
         IN  [j \in DOMAIN arcs |->
                <<name, N.ssymtab[H.trs[arcs[j]].targetstate], H.trs[arcs[j]].label,
                  H.trs[arcs[j]].weight>>]
             \o (IF s \in H.sets[H.fsts[self].finalstates]
                 THEN <<(<<name, H.states[s].finalweight>>)>>
                 ELSE <<>>)
             \o save_att_lines(H, self, rank, N, k + 1)

\* what save_att writes: the state symbol table and the lines of the file
save_att(H, self, rank, state_symbols) ==
    LET N == save_att_number(H, rank, state_symbols, <<H.fsts[self].initialstate>>,
                             <<>>, <<>>, <<>>)
    IN  [states |-> N.states, ssyms |-> N.ssyms, ssymtab |-> N.ssymtab,
         lines |-> save_att_lines(H, self, rank, N, 1)]

\* the loop of todict: a state taken from the deque is passed over when it
\* has a number
RECURSIVE todict_number(_, _, _, _, _)
todict_number(H, rank, q, states_, statenums) ==
    IF q = <<>> THEN [states |-> states_, statenums |-> statenums]
    ELSE LET state == Head(q)
         IN  IF state \in DOMAIN statenums
             THEN todict_number(H, rank, Tail(q), states_, statenums)
             ELSE LET statenums1 == DictPut(statenums, state, Len(states_))
                      arcs == SortedArcs(H, rank, state)
                      found == SelectSeq(arcs, LAMBDA t :
                                    H.trs[t].targetstate \notin DOMAIN statenums1)
                  IN  todict_number(H, rank,
                            Tail(q) \o [k \in DOMAIN found |-> H.trs[found[k]].targetstate],
                            Append(states_, state), statenums1)

\* the entries of "transitions" in the order they are appended: (src, label,
\* number of the target)
RECURSIVE todict_transitions(_, _, _, _)
todict_transitions(H, rank, N, k) ==
    IF k > Len(N.states) THEN <<>>
    ELSE LET arcs == SortedArcs(H, rank, N.states[k])
         IN  [j \in DOMAIN arcs |->
                <<k - 1, H.trs[arcs[j]].label, N.statenums[H.trs[arcs[j]].targetstate]>>]
             \o todict_transitions(H, rank, N, k + 1)

todict(H, self, rank) ==
    LET N == todict_number(H, rank, <<H.fsts[self].initialstate>>, <<>>, <<>>)
    IN  [states |-> N.states, statenums |-> N.statenums,
         transitions |-> todict_transitions(H, rank, N, 1),
         finals |-> {k - 1 : k \in {j \in DOMAIN N.states :
                        N.states[j] \in H.sets[H.fsts[self].finalstates]}}]

----------------------------------------------------------------------------
(* Specification SpecNumber: save_att and todict on the graphs of at most
   MaxArcs transitions *)

InitNumber ==
    \E arcs \in ArcSets, finalweights \in FinalConfigs :
        LET H == MakeGraph(arcs, finalweights)
        IN  /\ states = H.states
            /\ trs = H.trs
            /\ fsts = H.fsts
            /\ alphabets = H.alphabets
            /\ sets = H.sets
            /\ lastop = [op |-> "graph", self |-> 1, args |-> <<arcs, finalweights>>,
                         ret |-> 1]
            /\ ap = NoApply
            /\ out = <<>>

SaveAtt(self, rank, state_symbols) ==
    /\ lastop' = [op |-> "save_att", self |-> self, args |-> <<state_symbols>>,
                  ret |-> save_att(Heap, self, rank, state_symbols)]
    /\ UNCHANGED <<states, trs, fstvars, appvars>>

ToDict(self, rank) ==
    /\ lastop' = [op |-> "todict", self |-> self, args |-> <<>>,
                  ret |-> todict(Heap, self, rank)]
    /\ UNCHANGED <<states, trs, fstvars, appvars>>

NextNumber ==
    \/ \E self \in DOMAIN fsts, rank \in Orders(DOMAIN trs), state_symbols \in BOOLEAN :
            SaveAtt(self, rank, state_symbols)
    \/ \E self \in DOMAIN fsts, rank \in Orders(DOMAIN trs) : ToDict(self, rank)

SpecNumber == InitNumber /\ [][NextNumber]_vars

----------------------------------------------------------------------------
(* Claims about class State *)

\* every Transition object some State holds under some label
HeldBy(st) == UNION {st.transitions[label] : label \in DOMAIN st.transitions}

\* what a read at this moment has to return: for every symbol, the
\* (label, transition) pairs of the transitions the State holds now
IsIndexOf(map, st, i) ==
    /\ \A label \in DOMAIN st.transitions : \A t \in st.transitions[label] :
            LabelAt(label, i) \in DOMAIN map /\ <<label, t>> \in map[LabelAt(label, i)]
    /\ \A sym \in DOMAIN map : \A p \in map[sym] :
            /\ p[1] \in DOMAIN st.transitions
            /\ p[2] \in st.transitions[p[1]]
            /\ LabelAt(p[1], i) = sym

\* C3: a read of transitionsin (transitionsout) returns exactly the map from
\* each first (last) label symbol to the (label, transition) pairs the state
\* holds at the moment of the read, never an index computed before a later
\* mutation.
C3_ReadsReturnCurrentIndex ==
    /\ lastop.op = "transitionsin" =>
            IsIndexOf(lastop.ret, states[lastop.self], 0)
    /\ lastop.op = "transitionsout" =>
            IsIndexOf(lastop.ret, states[lastop.self], -1)

\* C4: after add_transition(target, label, weight) the state's set for that
\* label holds one entry for the triple (target, label, weight), also when the
\* same call was made before.
C4_AddTransitionIdempotent ==
    lastop.op = "add_transition" =>
        LET st == states[lastop.self]
            label == lastop.args[2]
        IN  Cardinality({t \in st.transitions[label] :
                trs[t] = Transition(lastop.args[1], label, lastop.args[3])}) = 1

\* C5: rename_label(old, new), old having a bucket, leaves under new exactly
\* the transitions that were under old and those already under new, target
\* and weight unchanged and label field new; no transition of the state is
\* lost and the buckets of the other labels are unchanged.
C5_RenameLabelMovesBucket ==
    [][lastop'.op = "rename_label" =>
        LET self == lastop'.self
            old == lastop'.args[1]
            new == lastop'.args[2]
            before == states[self].transitions
            after == states'[self].transitions
        IN  old \in DOMAIN before =>
              /\ new \in DOMAIN after
              /\ after[new] = before[old] \cup DictGet(before, new, {})
              /\ \A t \in before[old] \cup DictGet(before, new, {}) :
                    /\ trs'[t].targetstate = trs[t].targetstate
                    /\ trs'[t].weight = trs[t].weight
                    /\ trs'[t].label = new
              /\ HeldBy(states[self]) \subseteq HeldBy(states'[self])
              /\ \A l \in ((DOMAIN before) \cup (DOMAIN after)) \ {old, new} :
                    l \in DOMAIN before /\ l \in DOMAIN after /\ after[l] = before[l]
    ]_vars

\* C6: every label key of every state's transitions maps to a non-empty set,
\* and after remove_transitions_to_targets(targets) no label entry of the state
\* points to a state of targets.
C6_NoEmptyBucket ==
    /\ \A s \in StateIds : \A label \in DOMAIN states[s].transitions :
            states[s].transitions[label] # {}
    /\ lastop.op = "remove_transitions_to_targets" =>
            \A label \in DOMAIN states[lastop.self].transitions :
                \A t \in states[lastop.self].transitions[label] :
                    trs[t].targetstate \notin lastop.args[1]

\* a transition was added and the removal of the transitions to its target
\* left the state without any label entry
C6_Witness ==
    /\ lastop.op = "remove_transitions_to_targets"
    /\ Len(trs) = 1
    /\ trs[1].targetstate \in lastop.args[1]
    /\ states[lastop.self].transitions = <<>>

\* C7: remove_transitions_to_targets(targets) removes from the state exactly
\* the transitions whose target is in targets; the others stay under the same
\* label with the same target and weight, and no other state changes.
C7_RemoveExactlyTargets ==
    [][lastop'.op = "remove_transitions_to_targets" =>
        LET self == lastop'.self
            targets == lastop'.args[1]
            before == states[self].transitions
            after == states'[self].transitions
        IN  /\ trs' = trs
            /\ \A s \in StateIds \ {self} : states'[s] = states[s]
            /\ \A label \in DOMAIN before : \A t \in before[label] :
                    (trs[t].targetstate \notin targets)
                        <=> (label \in DOMAIN after /\ t \in after[label])
            /\ \A label \in DOMAIN after : \A t \in after[label] :
                    label \in DOMAIN before /\ t \in before[label]
    ]_vars

\* a removal that took one transition of a label and left the other one
C7_Witness ==
    /\ lastop.op = "remove_transitions_to_targets"
    /\ Len(trs) = 2
    /\ trs[1].label = trs[2].label
    /\ trs[1].targetstate \in lastop.args[1]
    /\ trs[2].targetstate \notin lastop.args[1]
    /\ states[lastop.self].transitions = [l \in {trs[2].label} |-> {2}]
    /\ \E s \in StateIds \ {lastop.self} : states[s].transitions = <<>>

----------------------------------------------------------------------------
(* Claims about the constructors *)

FstStates(f) == sets[fsts[f].states]
FstFinals(f) == sets[fsts[f].finalstates]

\* C8: in every automaton produced by FST(label, weight), character_ranges,
\* rlg, copy_mod, copy_filtered or become, the initial state is a member of
\* states, finalstates is a subset of states, and the target of every
\* transition of every state in states is in states.
C8_StatesClosed ==
    \A f \in DOMAIN fsts :
        /\ fsts[f].initialstate \in FstStates(f)
        /\ FstFinals(f) \subseteq FstStates(f)
        /\ \A s \in FstStates(f) : \A label \in DOMAIN states[s].transitions :
                \A t \in states[s].transitions[label] :
                    trs[t].targetstate \in FstStates(f)

\* a copy whose initial state has a transition, and an automaton that became it
C8_Witness ==
    /\ lastop.op = "become"
    /\ lastop.self # lastop.args[1]
    /\ Len(fsts) = 2
    /\ HeldBy(states[fsts[1].initialstate]) # {}
    /\ fsts[1] = fsts[2]

\* a state of the automaton is in finalstates exactly when its finalweight is
\* finite, and a state outside finalstates is not taken for accepting
FinalIffFinite(H, f) ==
    \A s \in H.sets[H.fsts[f].states] \cup H.sets[H.fsts[f].finalstates]
                \cup {H.fsts[f].initialstate} :
        /\ (s \in H.sets[H.fsts[f].finalstates]) <=> (H.states[s].finalweight # Inf)
        /\ s \notin H.sets[H.fsts[f].finalstates] =>
                H.states[s].finalweight = Inf /\ ~is_final(H, f, s)

----------------------------------------------------------------------------
(* Claims about apply *)

\* the automaton apply() runs on, and whether its search has ended
ApplyFst == fsts[ap.fst]
ApplyStates == sets[ApplyFst.states]
ApplyAlphabet == alphabets[ApplyFst.alphabet]
ApplyDone == ap.Q = {}

NonNegativeWeights ==
    /\ \A t \in DOMAIN trs : trs[t].weight >= 0
    /\ \A s \in ApplyStates : states[s].finalweight >= 0

\* C1: on an automaton whose transition weights and final weights are
\* non-negative, no result is yielded after a result of strictly higher cost.
C1_CostOrder ==
    NonNegativeWeights =>
        \A j, k \in DOMAIN out : j < k => out[j].cost <= out[k].cost

\* two results for the same word, the cheaper one first, and nothing left
C1_Witness ==
    /\ ApplyDone
    /\ Len(out) >= 2
    /\ out[1].cost < out[Len(out)].cost
    /\ \E t \in DOMAIN trs : trs[t].weight > 0

\* the consuming and the producing side of the call
ConsumingSym(label) == LabelAt(label, InIdx(ap.inverse))
ProducingSym(label) == LabelAt(label, OutIdx(ap.inverse))

\* a transition that consumes nothing: epsilon or a flag diacritic on the
\* consuming side
NonConsuming(label) == ConsumingSym(label) = EPSILON \/ is_flag(ConsumingSym(label))

\* the (label, transition) pairs that leave a state
Leaving(s) ==
    {p \in (DOMAIN states[s].transitions) \X (DOMAIN trs) :
        p[2] \in states[s].transitions[p[1]]}

\* the states reached from the states of S over non-consuming transitions
RECURSIVE NonConsumingClosure(_)
NonConsumingClosure(S) ==
    LET N == S \cup {trs[p[2]].targetstate :
                        p \in {q \in UNION {Leaving(s) : s \in S} : NonConsuming(q[1])}}
    IN  IF N = S THEN S ELSE NonConsumingClosure(N)

NoNonConsumingCycle ==
    \A s \in ApplyStates :
        s \notin NonConsumingClosure({trs[p[2]].targetstate :
                                        p \in {q \in Leaving(s) : NonConsuming(q[1])}})

\* a path that ends where it starts with nothing left of the word
PathEnd(s, pos) ==
    IF is_final(Heap, ap.fst, s) /\ pos = Len(ap.w)
    THEN {[path |-> <<>>, produced |-> <<>>, cost |-> states[s].finalweight]}
    ELSE {}

\* the path r after the transition p, which produces sym
PathAfter(p, sym, r) ==
    [path |-> <<p[2]>> \o r.path, produced |-> <<sym>> \o r.produced,
     cost |-> WAdd(trs[p[2]].weight, r.cost)]

\* The accepting paths from state s for the word from position pos on, read
\* as the claim words it: a consuming-side symbol other than epsilon equals
\* the next token.
RECURSIVE PathsEqual(_, _)
PathsEqual(s, pos) ==
    PathEnd(s, pos) \cup
    UNION {IF ConsumingSym(p[1]) = EPSILON
           THEN {PathAfter(p, ProducingSym(p[1]), r) :
                    r \in PathsEqual(trs[p[2]].targetstate, pos)}
           ELSE IF pos < Len(ap.w) /\ ap.w[pos + 1] = ConsumingSym(p[1])
           THEN {PathAfter(p, ProducingSym(p[1]), r) :
                    r \in PathsEqual(trs[p[2]].targetstate, pos + 1)}
           ELSE {} : p \in Leaving(s)}

\* a token of the alphabet matches the equal symbol, any other token the
\* wildcard
Matches(token, sym) ==
    IF token \in ApplyAlphabet THEN sym = token ELSE sym = WILDCARD

\* what a consuming transition produces: the token itself when an unknown
\* token goes through a transition that has the wildcard on both sides
Produces(token, label) ==
    IF token \notin ApplyAlphabet /\ ConsumingSym(label) = WILDCARD
            /\ ProducingSym(label) = WILDCARD
    THEN token ELSE ProducingSym(label)

\* The accepting paths from state s for the word from position pos on:
\* epsilon and flag diacritics consume nothing, the other consuming-side
\* symbols match the tokens in order.
RECURSIVE PathsMatching(_, _)
PathsMatching(s, pos) ==
    PathEnd(s, pos) \cup
    UNION {IF NonConsuming(p[1])
           THEN {PathAfter(p, ProducingSym(p[1]), r) :
                    r \in PathsMatching(trs[p[2]].targetstate, pos)}
           ELSE IF pos < Len(ap.w) /\ Matches(ap.w[pos + 1], ConsumingSym(p[1]))
           THEN {PathAfter(p, Produces(ap.w[pos + 1], p[1]), r) :
                    r \in PathsMatching(trs[p[2]].targetstate, pos + 1)}
           ELSE {} : p \in Leaving(s)}

NoDuplicate(seq) == \A j, k \in DOMAIN seq : j # k => seq[j].path # seq[k].path

\* C2 as stated: on an automaton without a cycle of non-consuming
\* transitions and with flag filtering disabled, apply yields exactly one
\* result per accepting path whose consuming-side non-epsilon symbols equal
\* the tokenized input in order; the output is the path's producing-side
\* symbols, the cost the sum of the path's weights and the final weight.
C2_OnePerEqualPath ==
    (ApplyDone /\ ~ap.obey_flags /\ NoNonConsumingCycle) =>
        /\ NoDuplicate(out)
        /\ {[path |-> out[k].path, text |-> out[k].text, cost |-> out[k].cost] :
                k \in DOMAIN out}
           = {[path |-> r.path, text |-> Join(r.produced), cost |-> r.cost] :
                r \in PathsEqual(ApplyFst.initialstate, 0)}

\* C2, amended: on an automaton without a cycle of transitions whose
\* consuming side is epsilon or a flag diacritic and with flag filtering
\* disabled, apply yields exactly one result per accepting path whose other
\* consuming-side symbols match the tokenized input in order, a token of the
\* alphabet matching the equal symbol and any other token the wildcard; the
\* output is the path's producing-side symbols, with the token in place of a
\* wildcard that an unknown token went through and without the flag
\* diacritics unless print_flags is set; the cost is the sum of the path's
\* weights and the final weight.  No result is yielded that is not of such a
\* path, at any moment of the search.
C2_OnePerMatchingPath ==
    (~ap.obey_flags /\ NoNonConsumingCycle) =>
        LET shown(produced) == IF ap.print_flags THEN produced ELSE filter_flags(produced)
            expected == {[tokens |-> shown(r.produced), text |-> Join(shown(r.produced)),
                          cost |-> r.cost, path |-> r.path] :
                            r \in PathsMatching(ApplyFst.initialstate, 0)}
        IN  /\ NoDuplicate(out)
            /\ {out[k] : k \in DOMAIN out} \subseteq expected
            /\ ApplyDone => {out[k] : k \in DOMAIN out} = expected

\* the search has ended with two results, one of them of a path over a
\* wildcard that an unknown token went through and a non-consuming transition
C2_Witness ==
    /\ ApplyDone
    /\ ~ap.obey_flags
    /\ NoNonConsumingCycle
    /\ Len(out) >= 2
    /\ \E k \in DOMAIN out :
            /\ Len(out[k].path) = 2
            /\ trs[out[k].path[1]].label = <<WILDCARD>>
            /\ NonConsuming(trs[out[k].path[2]].label)
            /\ ap.w[1] \notin ApplyAlphabet
            /\ out[k].tokens[1] = ap.w[1]

\* generate(word, weights=True) on the automaton that FST((x,)) returned
GenerateOnSingleSymbol ==
    /\ lastop.op = "FST"
    /\ Len(lastop.args[1]) = 1
    /\ lastop.args[2] = 0
    /\ ~ap.inverse
    /\ ap.obey_flags
    /\ ~ap.print_flags

AcceptsExactlyItsSymbol ==
    LET x == lastop.args[1][1]
    IN  IF ap.word = x
        THEN Len(out) = 1 /\ out[1].text = x /\ out[1].cost = 0
        ELSE out = <<>>

\* C10 as stated: for any single symbol x, generate(x) on FST((x,)) yields
\* exactly (x, 0) and generate(t) yields nothing for every other string t.
C10_AcceptsExactlySymbolAlways ==
    (GenerateOnSingleSymbol /\ ApplyDone) => AcceptsExactlyItsSymbol

\* C10, amended: for any single symbol x other than the wildcard and the
\* flag diacritics, generate(x) on FST((x,)) yields exactly (x, 0) and
\* generate(t) yields nothing for every other string t; nothing else is
\* yielded at any moment.
C10_AcceptsExactlySymbol ==
    LET x == lastop.args[1][1]
    IN  (GenerateOnSingleSymbol /\ x # WILDCARD /\ ~is_flag(x)) =>
            /\ \A k \in DOMAIN out : k = 1 /\ out[k].text = x /\ out[k].cost = 0 /\ ap.word = x
            /\ ApplyDone => AcceptsExactlyItsSymbol

\* the symbol of two characters was generated from the word of these two
\* characters
C10_Witness ==
    /\ GenerateOnSingleSymbol
    /\ ApplyDone
    /\ lastop.args[1][1] = SymAB
    /\ ap.word = SymAB
    /\ ap.w = <<SymAB>>
    /\ Len(out) = 1
    /\ out[1].text = SymAB
    /\ out[1].cost = 0

----------------------------------------------------------------------------
(* Claims about tokenize_against_alphabet *)

\* the position in the word at which token k of tokens starts
RECURSIVE TokenStart(_, _)
TokenStart(tokens, k) == IF k = 1 THEN 1 ELSE TokenStart(tokens, k - 1) + Len(tokens[k - 1])

\* the lengths of the prefixes of the word from position p that are in alphabet
PrefixLengths(alphabet, word, p) ==
    {n \in 1..(Len(word) - p + 1) : SubSeq(word, p, p + n - 1) \in alphabet}

\* C11: at each position the token taken is the longest prefix of the
\* remaining input that is an alphabet symbol, or the single next character
\* when no prefix is in the alphabet; the tokens concatenated in order equal
\* the word, and the function returns for every word.
C11_LongestMatchLossless ==
    lastop.op = "tokenize_against_alphabet" =>
        LET word == lastop.args[1]
            tokens == lastop.ret
            alphabet == alphabets[fsts[lastop.self].alphabet]
        IN  /\ Join(tokens) = word
            /\ \A k \in DOMAIN tokens :
                LET p == TokenStart(tokens, k)
                    lengths == PrefixLengths(alphabet, word, p)
                IN  /\ p <= Len(word)
                    /\ tokens[k] = SubSeq(word, p, p + Len(tokens[k]) - 1)
                    /\ IF lengths = {}
                       THEN tokens[k] = <<word[p]>>
                       ELSE /\ Len(tokens[k]) \in lengths
                            /\ \A n \in lengths : n <= Len(tokens[k])

\* a word whose first token is the longer of two alphabet symbols and whose
\* second token is a character that is not in the alphabet
C11_Witness ==
    /\ lastop.op = "tokenize_against_alphabet"
    /\ {<<"a">>, <<"a", "b">>} \subseteq alphabets[fsts[lastop.self].alphabet]
    /\ lastop.args[1] = <<"a", "b", "b">>
    /\ lastop.ret = <<<<"a", "b">>, <<"b">>>>

----------------------------------------------------------------------------
(* Claims about rlg *)

\* the grammar, the start symbol and the iteration order of the rlg call
RlgGrammar == lastop.args[1]

\* the grammar has the single rule-set Start with a single rule
RlgSoleRule ==
    /\ lastop.op = "rlg"
    /\ DOMAIN RlgGrammar = {"Start"}
    /\ Len(RlgGrammar["Start"]) = 1
    /\ RlgGrammar["Start"][1].target = TERMINAL
    /\ Len(RlgGrammar["Start"][1].lhs) = 1

\* the string of the sole rule
RlgString == RlgGrammar["Start"][1].lhs[1]

GenerateDefaults == ~ap.inverse /\ ap.obey_flags /\ ~ap.print_flags

\* C12: for the grammar with the single rule (s, "#") of the rule-set Start,
\* s a non-empty string of one-character symbols without space, quote,
\* backslash and '.', generate(s) on rlg(grammar, "Start") yields exactly the
\* one result s, and generate(t) yields nothing for every other t.
C12_RlgAcceptsItsString ==
    (/\ RlgSoleRule
     /\ RlgGrammar["Start"][1].weight = NoWeight
     /\ RlgString # <<>>
     /\ \A k \in DOMAIN RlgString : RlgString[k] \notin {SPACE, QUOTE, BACKSLASH, "."}
     /\ GenerateDefaults
     /\ ApplyDone)
        => IF ap.word = RlgString
           THEN Len(out) = 1 /\ out[1].text = RlgString
           ELSE out = <<>>

\* the rules of the grammar in the order rlg compiles them
RECURSIVE CompiledRules(_, _)
CompiledRules(grammar, order) ==
    IF order = <<>> THEN <<>>
    ELSE (IF order[1] = TERMINAL THEN <<>> ELSE grammar[order[1]])
            \o CompiledRules(grammar, Tail(order))

\* the number of positions of the chain of a rule
ChainLen(rule) ==
    Max(Len(rlg_tokenize(rule.lhs[1])), Len(rlg_tokenize(rule.lhs[Len(rule.lhs)])))

\* the number of transitions made for the rules before rule j
RECURSIVE ChainsBefore(_, _)
ChainsBefore(rules, j) ==
    IF j = 1 THEN 0 ELSE ChainsBefore(rules, j - 1) + ChainLen(rules[j - 1])

\* the weight of a rule, 0.0 when the rule has no third element
RuleWeight(rule) == IF rule.weight = NoWeight THEN 0 ELSE rule.weight

\* C13: for every rule compiled by rlg the weight of the rule is on the
\* transition of the last position of its chain, which leads to the state of
\* the rule's target, and every earlier transition of the chain has weight 0;
\* on the automaton of a grammar whose sole rule has weight w, every result of
\* generate has cost w.
C13_WeightOnLastTransition ==
    lastop.op = "rlg" =>
        LET rules == CompiledRules(RlgGrammar, lastop.args[3])
        IN  /\ \A j \in DOMAIN rules : \A p \in 1..ChainLen(rules[j]) :
                LET t == trs[ChainsBefore(rules, j) + p]
                IN  IF p = ChainLen(rules[j])
                    THEN /\ t.weight = RuleWeight(rules[j])
                         /\ states[t.targetstate].name = rules[j].target
                    ELSE t.weight = 0
            /\ (RlgSoleRule /\ ~ap.inverse) =>
                    \A k \in DOMAIN out : out[k].cost = RuleWeight(RlgGrammar["Start"][1])

\* the string ab of the sole rule, of weight 2, was generated at cost 2 over a
\* first transition of weight 0 and a second one of weight 2
C13_Witness ==
    /\ RlgSoleRule
    /\ RlgString = <<"a", "b">>
    /\ RlgGrammar["Start"][1].weight = 2
    /\ ~ap.inverse
    /\ ApplyDone
    /\ Len(out) = 1
    /\ out[1].cost = 2
    /\ trs[1].weight = 0
    /\ trs[2].weight = 2

\* the names a grammar declares: its rule-sets and the terminal
DeclaredNames(grammar) == (DOMAIN grammar) \cup {TERMINAL}

\* C14: rlg returns no automaton whenever some rule names a continuation that
\* is neither a key of the grammar nor "#", or the start symbol is not
\* declared.
C14_UndeclaredNameFails ==
    lastop.op = "rlg" =>
        LET grammar == lastop.args[1]
            startsymbol == lastop.args[2]
        IN  (\/ \E name \in DOMAIN grammar : \E k \in DOMAIN grammar[name] :
                    grammar[name][k].target \notin DeclaredNames(grammar)
             \/ startsymbol \notin DeclaredNames(grammar))
                => lastop.ret = None

----------------------------------------------------------------------------
(* Claims about the steps of apply *)

\* the step pops an entry that is at a State
ExpandsEntry == ap.fst # 0 /\ ap.Q # {} /\ heappop(ap.Q).state # None

\* the entries the step pushed for the transition t after the entry e
PushedFor(e, t) == {n \in ap'.Q \ ap.Q : n.path = Append(e.path, t)}

\* C15: every step of apply over a transition whose consuming-side symbol is
\* epsilon or a flag diacritic leaves the input position unchanged, adds the
\* transition's weight and appends the producing-side symbol; the step is
\* taken wherever the path is in the input, at its end too.
C15_NonConsumingStep ==
    [][ExpandsEntry =>
        LET e == heappop(ap.Q)
        IN  \A p \in Leaving(e.state) :
                NonConsuming(p[1]) =>
                    /\ PushedFor(e, p[2]) # {}
                    /\ \A n \in PushedFor(e, p[2]) :
                        /\ n.negpos = e.negpos
                        /\ n.cost = WAdd(e.cost, trs[p[2]].weight)
                        /\ n.output = Append(e.output, ProducingSym(p[1]))
                        /\ n.state = trs[p[2]].targetstate
    ]_vars

\* a path that went over a flag diacritic after all input had been consumed
C15_Witness ==
    /\ ap.fst # 0
    /\ Len(ap.w) >= 1
    /\ \E n \in ap.Q :
        /\ Len(n.path) >= 2
        /\ is_flag(ConsumingSym(trs[n.path[Len(n.path)]].label))
        /\ ~NonConsuming(trs[n.path[Len(n.path) - 1]].label)
        /\ -n.negpos = Len(ap.w)

\* C16: a token that is in the alphabet advances only over the transitions
\* whose consuming-side symbol equals it; a token that is not in the alphabet
\* advances only over the transitions whose consuming-side symbol is the
\* wildcard, and then the output gets the token itself when the producing side
\* is the wildcard too, and the producing-side symbol otherwise.
C16_TokenMatching ==
    [][ExpandsEntry =>
        LET e == heappop(ap.Q)
            pos == -e.negpos
        IN  \A p \in Leaving(e.state) :
                ~NonConsuming(p[1]) =>
                    IF pos >= Len(ap.w) THEN PushedFor(e, p[2]) = {}
                    ELSE LET token == ap.w[pos + 1]
                             known == token \in ApplyAlphabet
                         IN  /\ PushedFor(e, p[2]) # {} <=>
                                    ConsumingSym(p[1]) = (IF known THEN token ELSE WILDCARD)
                             /\ \A n \in PushedFor(e, p[2]) :
                                    /\ n.negpos = e.negpos - 1
                                    /\ n.state = trs[p[2]].targetstate
                                    /\ ~known =>
                                        n.output = Append(e.output,
                                            IF ProducingSym(p[1]) = WILDCARD THEN token
                                            ELSE ProducingSym(p[1]))
    ]_vars

\* a token that is not in the alphabet went over two wildcard transitions:
\* one put the token in the output, the other its own producing-side symbol
C16_Witness ==
    /\ ap.fst # 0
    /\ Len(ap.w) = 1
    /\ ap.w[1] \notin ApplyAlphabet
    /\ \E n \in ap.Q :
        /\ Len(n.path) = 1
        /\ trs[n.path[1]].label = <<WILDCARD>>
        /\ n.output = <<ap.w[1]>>
    /\ \E n \in ap.Q :
        /\ Len(n.path) = 1
        /\ trs[n.path[1]].label = <<WILDCARD, SymA>>
        /\ n.output = <<SymA>>
        /\ ap.w[1] # SymA

----------------------------------------------------------------------------
(* Claims about the traversals leaving the automaton alone *)

\* the step is the start of a call
CallStep == lastop'.ret # lastop.ret

\* the frame holds the one entry a call starts with: the initial state, cost
\* zero, nothing consumed, nothing produced
FreshFrame(A) ==
    LET initialstate == fsts[A.fst].initialstate
    IN  IF "deque" \in DOMAIN A
        THEN /\ Len(A.deque) = 1
             /\ A.deque[1].state = initialstate
             /\ A.deque[1].cost = 0
             /\ A.deque[1].seq = <<>>
        ELSE /\ Cardinality(A.Q) = 1
             /\ \A e \in A.Q : /\ e.state = initialstate
                               /\ e.cost = 0
                               /\ e.negpos = 0
                               /\ e.output = <<>>
                               /\ e.path = <<>>

\* C17: no step of generate, analyze or words, and no call that abandons the
\* traversal before it, changes the alphabet, the states, the initial state,
\* the final states, a state's transitions or final weight, or a
\* transition's target, label or weight; and a call starts from a frame of
\* its own that holds nothing of the call before it
C17_TraversalReadOnly ==
    [][/\ Heap' = Heap
       /\ CallStep => FreshFrame(ap') /\ out' = <<>>]_vars

\* a second call was made while the generator of the first one still had
\* entries queued, and it has followed a transition and yielded a result
C17_Witness ==
    /\ lastop.ret = 2
    /\ lastop.abandoned
    /\ out # <<>>
    /\ ap.cntr > 1
    /\ trs # <<>>

----------------------------------------------------------------------------
(* Claims about from_strings *)

\* the string a sequence of labels of an acceptor spells
RECURSIVE Spelled(_)
Spelled(seq) == IF seq = <<>> THEN <<>> ELSE LabelIn(seq[1]) \o Spelled(Tail(seq))

\* words() has nothing left to visit
WordsDone == "deque" \in DOMAIN ap /\ ap.deque = <<>>

\* C18: words() on the automaton of from_strings(S) yields the strings of S and
\* nothing else, each of them once, each with cost 0
C18_FromStringsRoundTrip ==
    lastop.op = "from_strings" =>
        LET S == lastop.args[1]
        IN  /\ \A k \in DOMAIN out : Spelled(out[k].seq) \in S /\ out[k].cost = 0
            /\ \A j, k \in DOMAIN out : Spelled(out[j].seq) = Spelled(out[k].seq) => j = k
            /\ WordsDone => \A s \in S : \E k \in DOMAIN out : Spelled(out[k].seq) = s

----------------------------------------------------------------------------
(* Claims about the order of the search *)

\* the entry the step takes off the queue
Popped == {e \in ap.Q : e \notin ap'.Q}

\* C19 as stated: every entry popped has the least cost of the queue and,
\* among the entries of that cost, is the one inserted first
C19_CostThenInsertion ==
    [][\A e \in Popped : \A e2 \in ap.Q \ {e} :
            \/ e.cost < e2.cost
            \/ e.cost = e2.cost /\ e.cntr < e2.cntr]_vars

\* C19: every entry popped has the least cost of the queue; among the
\* entries of that cost it is one that has consumed the most tokens, and
\* among those the one inserted first; the output, the state and the path of
\* an entry play no part.  Finished paths at the end of the word have all
\* consumed the same, so that results of equal cost are yielded in the order
\* they were inserted.
C19_CostPositionInsertion ==
    [][\A e \in Popped :
            /\ \A e2 \in ap.Q \ {e} :
                    \/ e.cost < e2.cost
                    \/ e.cost = e2.cost /\ -e.negpos > -e2.negpos
                    \/ e.cost = e2.cost /\ e.negpos = e2.negpos /\ e.cntr < e2.cntr
            /\ Len(out') > Len(out) =>
                    \A e2 \in ap.Q \ {e} :
                        (e2.state = None /\ -e2.negpos = Len(ap.w) /\ e2.cost = e.cost)
                            => e.cntr < e2.cntr]_vars

\* two transitions leave the initial state at the same cost, the first does
\* not consume and the second does: the entry of the second was inserted
\* later and has been popped, as the finished path it pushed shows, while the
\* entry of the first is still queued
C19_Witness ==
    /\ \E e1 \in ap.Q, n \in ap.Q :
            /\ Len(e1.path) = 1 /\ Len(n.path) = 1
            /\ e1.state # None /\ n.state = None
            /\ e1.path[1] < n.path[1]
            /\ e1.cntr < n.cntr
            /\ e1.negpos = 0 /\ n.negpos = -1
            /\ e1.cost = trs[n.path[1]].weight

----------------------------------------------------------------------------
(* Claims about the search coming to an end *)

\* the state lies on a cycle of non-consuming transitions
OnNonConsumingCycle(s) ==
    s \in NonConsumingClosure({trs[p[2]].targetstate :
                                p \in {q \in Leaving(s) : NonConsuming(q[1])}})

\* the states reached from the states of S over transitions of any kind
RECURSIVE GraphClosure(_)
GraphClosure(S) ==
    LET N == S \cup {trs[p[2]].targetstate : p \in UNION {Leaving(s) : s \in S}}
    IN  IF N = S THEN S ELSE GraphClosure(N)

\* a cycle of non-consuming transitions is reachable from the initial state
CycleReachable ==
    \E s \in GraphClosure({ApplyFst.initialstate}) : OnNonConsumingCycle(s)

\* the pairs (state, tokens consumed) the search can come to from those of C:
\* a non-consuming transition keeps the position, a consuming one needs the
\* next token to match
RECURSIVE ConfigClosure(_)
ConfigClosure(C) ==
    LET N == C \cup UNION {{<<trs[p[2]].targetstate,
                              IF NonConsuming(p[1]) THEN c[2] ELSE c[2] + 1>> :
                                p \in {q \in Leaving(c[1]) :
                                        \/ NonConsuming(q[1])
                                        \/ /\ c[2] < Len(ap.w)
                                           /\ Matches(ap.w[c[2] + 1], ConsumingSym(q[1]))}} :
                           c \in C}
    IN  IF N = C THEN C ELSE ConfigClosure(N)

\* a cycle of non-consuming transitions is reachable from the initial state
\* over a path the tokens of the word match
CycleOnWord ==
    \E c \in ConfigClosure({<<ApplyFst.initialstate, 0>>}) : OnNonConsumingCycle(c[1])

\* C20 as stated: the queue of apply becomes empty whenever no cycle of
\* non-consuming transitions is reachable from the initial state, and never
\* becomes empty when one is reachable
C20_EndsIffNoCycle ==
    /\ [](CycleReachable => ~ApplyDone)
    /\ ~CycleReachable ~> ApplyDone

\* C20: for an automaton and a word, the queue of apply becomes empty, after
\* finitely many yields, when no cycle of non-consuming transitions is
\* reachable from the initial state over a path that the tokens of the word
\* match, and it never becomes empty when one is
C20_EndsIffNoCycleOnWord ==
    /\ [](CycleOnWord => ~ApplyDone)
    /\ ~CycleOnWord ~> ApplyDone

\* a search has yielded a result and ended on an automaton that has a cycle
\* of non-consuming transitions, reachable from the initial state, which the
\* word does not lead to
C20_Witness ==
    /\ ApplyDone
    /\ CycleReachable
    /\ ~CycleOnWord
    /\ out # <<>>

----------------------------------------------------------------------------
(* Claims about words() *)

\* a cycle of transitions of any kind is reachable from the initial state
AnyCycleReachable ==
    \E s \in GraphClosure({ApplyFst.initialstate}) :
        s \in GraphClosure({trs[p[2]].targetstate : p \in Leaving(s)})

\* the paths that go on from the path r, which ends at state s, to a final
\* state: the transitions, the labels and the cost summed from the left
RECURSIVE PathsOnFrom(_, _)
PathsOnFrom(s, r) ==
    (IF is_final(Heap, ap.fst, s)
     THEN {[r EXCEPT !.cost = WAdd(@, states[s].finalweight)]}
     ELSE {})
    \cup UNION {PathsOnFrom(trs[p[2]].targetstate,
                            [path |-> Append(r.path, p[2]), seq |-> Append(r.seq, p[1]),
                             cost |-> WAdd(r.cost, trs[p[2]].weight)]) :
                p \in Leaving(s)}

FinalPaths == PathsOnFrom(ApplyFst.initialstate, [path |-> <<>>, seq |-> <<>>, cost |-> 0])

\* C21: on an automaton with no cycle reachable from the initial state,
\* words() comes to an end, and it has then yielded one pair for every path
\* from the initial state to a final state, the cost of the path with the
\* final weight and the labels of the path; the pairs come in non-decreasing
\* order of path length; with a cycle reachable from the initial state
\* words() never comes to an end
C21_WordsEnumeratesPaths ==
    /\ [](\A j, k \in DOMAIN out : j < k => Len(out[j].seq) <= Len(out[k].seq))
    /\ []((~AnyCycleReachable /\ WordsDone) =>
            \A pair \in {[cost |-> r.cost, seq |-> r.seq] : r \in FinalPaths}
                            \cup {out[k] : k \in DOMAIN out} :
                Cardinality({k \in DOMAIN out : out[k] = pair})
                    = Cardinality({r \in FinalPaths : r.cost = pair.cost /\ r.seq = pair.seq}))
    /\ ~AnyCycleReachable ~> WordsDone
    /\ [](AnyCycleReachable => ~WordsDone)

\* words() has come to an end after yielding the pairs of two paths of
\* different length, one of them of two transitions
C21_Witness ==
    /\ WordsDone
    /\ ~AnyCycleReachable
    /\ \E j, k \in DOMAIN out : Len(out[j].seq) < Len(out[k].seq) /\ Len(out[k].seq) = 2
    /\ \E k \in DOMAIN out : out[k].cost > 0

----------------------------------------------------------------------------
(* Claims about the chains rlg builds *)

\* the rules in the order rlg compiles them, each with the rule-set it is in
RECURSIVE RulesOf(_, _)
RulesOf(grammar, order) ==
    IF order = <<>> THEN <<>>
    ELSE (IF order[1] = TERMINAL THEN <<>>
          ELSE [k \in DOMAIN grammar[order[1]] |->
                    [source |-> order[1], rule |-> grammar[order[1]][k]]])
            \o RulesOf(grammar, Tail(order))

\* the state objects that have the name
Named(name) == {s \in DOMAIN states : states[s].name = name}

\* the state that holds the transition
Holder(t) == {s \in DOMAIN states : t \in HeldBy(states[s])}

\* the label of position p of the chain of a rule
ChainLabel(rule, p) ==
    LET ii == TokenAt(rlg_tokenize(rule.lhs[1]), p)
        oo == TokenAt(rlg_tokenize(rule.lhs[Len(rule.lhs)]), p)
    IN  IF ii = oo THEN <<ii>> ELSE <<ii, oo>>

\* the chain of the rule number j is the transitions first + 1 .. first + n
RuleChainBuilt(rules, j) ==
    LET rule == rules[j].rule
        n == ChainLen(rule)
        first == ChainsBefore([k \in DOMAIN rules |-> rules[k].rule], j)
        io == rlg_tokenize(rule.lhs[1]) \o rlg_tokenize(rule.lhs[Len(rule.lhs)])
    IN  /\ first + n <= Len(trs)
        /\ IF n = 0 THEN Named(rules[j].source) = Named(rule.target)
           ELSE /\ Holder(first + 1) = Named(rules[j].source)
                /\ {trs[first + n].targetstate} = Named(rule.target)
        /\ \A p \in 1..n :
                /\ \E label \in DOMAIN states[CHOOSE s \in Holder(first + p) : TRUE].transitions :
                        /\ first + p \in states[CHOOSE s \in Holder(first + p) : TRUE].transitions[label]
                        /\ label = ChainLabel(rule, p)
                /\ trs[first + p].label = ChainLabel(rule, p)
        /\ \A p \in 1..(n - 1) :
                LET mid == trs[first + p].targetstate
                IN  /\ states[mid].name = NoName
                    /\ mid \in sets[fsts[lastop.ret].states]
                    /\ HeldBy(states[mid]) = {first + p + 1}
                    /\ \A t \in DOMAIN trs : trs[t].targetstate = mid => t = first + p
        /\ \A k \in DOMAIN io : io[k] # EPSILON => io[k] \in alphabets[fsts[lastop.ret].alphabet]

\* C22: for every rule that rlg compiles, with input tokens i and output
\* tokens o, the automaton has a chain of max(|i|,|o|) transitions from the
\* state of the rule-set to the state of the rule's target, whose k-th label
\* pairs i[k] with o[k], epsilon past the end of the shorter one, one symbol
\* when the two are equal; the chain passes through max(|i|,|o|)-1 anonymous
\* states of the automaton that no other transition touches; the tokens other
\* than epsilon are in the alphabet; there are no other transitions
C22_RuleChains ==
    (lastop.op = "rlg" /\ lastop.ret # None) =>
        LET rules == RulesOf(RlgGrammar, lastop.args[3])
        IN  /\ \A j \in DOMAIN rules : RuleChainBuilt(rules, j)
            /\ Len(trs) = ChainsBefore([k \in DOMAIN rules |-> rules[k].rule],
                                       Len(rules) + 1)

----------------------------------------------------------------------------
(* Claims about the order in which rlg compiles *)

\* accepting paths of more transitions than this are left out of a relation
RelationDepth == 6

\* the triples (input, output, cost) of the accepting paths of at most n
\* transitions that go on from state s of the automaton self of the heap H,
\* r being the triple of the path so far; epsilon adds nothing to a side
RECURSIVE RelationFrom(_, _, _, _, _)
RelationFrom(H, self, s, r, n) ==
    LET pairs == StateAllTransitions(H, s)
        side(sym) == IF sym = EPSILON THEN <<>> ELSE <<sym>>
    IN  (IF is_final(H, self, s)
         THEN {<<r[1], r[2], WAdd(r[3], H.states[s].finalweight)>>}
         ELSE {})
        \cup (IF n = 0 THEN {}
              ELSE UNION {RelationFrom(H, self, H.trs[pairs[k][2]].targetstate,
                                       <<r[1] \o side(LabelIn(pairs[k][1])),
                                         r[2] \o side(LabelOut(pairs[k][1])),
                                         WAdd(r[3], H.trs[pairs[k][2]].weight)>>, n - 1) :
                          k \in DOMAIN pairs})

Relation(H, self) ==
    RelationFrom(H, self, H.fsts[self].initialstate, <<<<>>, <<>>, 0>>, RelationDepth)

\* the grammars that have the rules of each rule-set in another order
RuleOrders(grammar) ==
    {g \in [DOMAIN grammar ->
                UNION {{[k \in DOMAIN grammar[name] |-> grammar[name][f[k]]] :
                            f \in Orders(DOMAIN grammar[name])} : name \in DOMAIN grammar}] :
        \A name \in DOMAIN grammar :
            \E f \in Orders(DOMAIN grammar[name]) :
                g[name] = [k \in DOMAIN grammar[name] |-> grammar[name][f[k]]]}

\* C23: whatever the order in which rlg visits the rule-sets and whatever the
\* order of the rules inside each rule-set, the automaton accepts the same
\* triples (input, output, cost) and has the same alphabet
C23_OrderIndependent ==
    (lastop.op = "rlg" /\ lastop.ret # None) =>
        \A g \in RuleOrders(RlgGrammar), order \in Orders((DOMAIN RlgGrammar) \cup {TERMINAL}) :
            LET H == rlg(EmptyHeap, g, lastop.args[2], order)
            IN  /\ Relation(H, 1) = Relation(Heap, lastop.ret)
                /\ H.alphabets[H.fsts[1].alphabet] = alphabets[fsts[lastop.ret].alphabet]

\* rlg has compiled a grammar of two rule-sets, one of them with two rules,
\* visiting the terminal first and Start last; the automaton accepts a pair of
\* different strings at a cost and has two symbols
C23_Witness ==
    /\ lastop.op = "rlg" /\ lastop.ret # None
    /\ RlgGrammar = GrammarPair
    /\ lastop.args[3][1] = TERMINAL /\ lastop.args[3][3] = "Start"
    /\ \E r \in Relation(Heap, lastop.ret) : r[1] # r[2] /\ r[3] > 0
    /\ Cardinality(Relation(Heap, lastop.ret)) > 1
    /\ Cardinality(alphabets[fsts[lastop.ret].alphabet]) = 2

----------------------------------------------------------------------------
(* Claims about the alphabet of separately constructed automata *)

AlphabetOf(f) == alphabets[fsts[f].alphabet]

\* C24: automata made by separate constructor calls that pass no alphabet
\* have alphabet containers of their own: adding a symbol to the alphabet of
\* one automaton, or cleanup_sigma on it, leaves the alphabet of every other
\* automaton as it was, and FST() and FST(('',)) start with an empty alphabet
C24_NoSharedAlphabet ==
    [][/\ \A f, g \in DOMAIN fsts' : f # g => fsts'[f].alphabet # fsts'[g].alphabet
       /\ lastop'.op \in {"alphabet.add", "cleanup_sigma"} =>
            \A f \in DOMAIN fsts \ {lastop'.self} :
                alphabets'[fsts'[f].alphabet] = AlphabetOf(f)
       /\ (Len(fsts') > Len(fsts) /\ lastop'.args[1] \in {NoLabel, <<EPSILON>>}) =>
            alphabets'[fsts'[Len(fsts')].alphabet] = {}]_vars

----------------------------------------------------------------------------
(* Claims about become *)

StatesOf(f) == sets[fsts[f].states]

\* C25: a.become(b) gives a the alphabet, the initial state, the state set
\* and the final-state set of b, all four in one step, and leaves the four
\* fields of b and every state and transition as they were; a then accepts
\* the relation of b; and a state added to a.states or a symbol added to
\* a.alphabet afterwards leaves the state set and the alphabet of b unchanged
C25_BecomeKeepsOtherApart ==
    [][/\ lastop'.op = "become" =>
            LET a == lastop'.self
                b == lastop'.args[1]
            IN  /\ alphabets'[fsts'[a].alphabet] = AlphabetOf(b)
                /\ sets'[fsts'[a].states] = StatesOf(b)
                /\ sets'[fsts'[a].finalstates] = sets[fsts[b].finalstates]
                /\ fsts'[a].initialstate = fsts[b].initialstate
                /\ fsts'[b] = fsts[b]
                /\ alphabets'[fsts'[b].alphabet] = AlphabetOf(b)
                /\ sets'[fsts'[b].states] = StatesOf(b)
                /\ states' = states /\ trs' = trs
                /\ Relation(Heap', a) = Relation(Heap, b)
       /\ lastop'.op \in {"states.add", "alphabet.add"} =>
            \A b \in DOMAIN fsts \ {lastop'.self} :
                alphabets'[fsts'[b].alphabet] = AlphabetOf(b) /\ sets'[fsts'[b].states] = StatesOf(b)]_vars

----------------------------------------------------------------------------
(* Claims about copies *)

\* the (label, target, weight) of the transitions of a State, one entry per
\* Transition object
ArcsOf(H, s) ==
    LET own == StateAllTransitions(H, s)
    IN  [k \in DOMAIN own |->
            <<own[k][1], H.trs[own[k][2]].targetstate, H.trs[own[k][2]].weight>>]

\* two lists hold the same entries the same number of times
SameBag(p, q) ==
    /\ Len(p) = Len(q)
    /\ \A j \in DOMAIN p :
            Cardinality({k \in DOMAIN p : p[k] = p[j]})
                = Cardinality({k \in DOMAIN q : q[k] = p[j]})

\* m is an isomorphism from the automaton f of the heap H to the automaton g
\* of the heap G
Isomorphism(m, H, f, G, g) ==
    /\ G.fsts[g].initialstate = m[H.fsts[f].initialstate]
    /\ G.sets[G.fsts[g].finalstates] = {m[s] : s \in H.sets[H.fsts[f].finalstates]}
    /\ \A s \in DOMAIN m :
        /\ G.states[m[s]].name = H.states[s].name
        /\ G.states[m[s]].finalweight = H.states[s].finalweight
        /\ SameBag([k \in DOMAIN ArcsOf(H, s) |->
                        <<ArcsOf(H, s)[k][1], m[ArcsOf(H, s)[k][2]], ArcsOf(H, s)[k][3]>>],
                   ArcsOf(G, m[s]))

\* what an automaton is made of: the contents of its alphabet, its initial
\* state, its states with their transitions, its final states
ViewOf(H, f) ==
    [alphabet |-> H.alphabets[H.fsts[f].alphabet],
     initialstate |-> H.fsts[f].initialstate,
     states |-> [s \in H.sets[H.fsts[f].states] |->
                    [name |-> H.states[s].name,
                     finalweight |-> H.states[s].finalweight,
                     arcs |-> {<<own[1], own[2], H.trs[own[2]]>> :
                                own \in {StateAllTransitions(H, s)[k] :
                                            k \in DOMAIN StateAllTransitions(H, s)}}]],
     finalstates |-> H.sets[H.fsts[f].finalstates]]

\* the Transition objects held by the states of an automaton
TransitionsOf(H, f) ==
    UNION {{StateAllTransitions(H, s)[k][2] : k \in DOMAIN StateAllTransitions(H, s)} :
            s \in H.sets[H.fsts[f].states]}

\* C26: the copy of an automaton has the alphabet contents of the original
\* and its states correspond one to one to those of the original, with the
\* names, the initial state, the final states, the final weights and every
\* (label, target, weight) transition; it shares no State, Transition or
\* alphabet container with the original; and add_transition,
\* remove_transitions_to_targets, rename_label on a state of one automaton,
\* or an addition to its alphabet, leaves the other automata as they were
C26_CopyIsIndependent ==
    [][/\ lastop'.op = "copy" =>
            LET f == lastop'.self
                g == lastop'.ret
            IN  /\ alphabets'[fsts'[g].alphabet] = AlphabetOf(f)
                /\ fsts'[g].alphabet # fsts'[f].alphabet
                /\ fsts'[g].states # fsts'[f].states
                /\ fsts'[g].finalstates # fsts'[f].finalstates
                /\ sets'[fsts'[g].states] \cap StatesOf(f) = {}
                /\ TransitionsOf(Heap', g) \cap TransitionsOf(Heap', f) = {}
                /\ \E m \in [StatesOf(f) -> sets'[fsts'[g].states]] :
                        /\ \A s, t \in StatesOf(f) : s # t => m[s] # m[t]
                        /\ {m[s] : s \in StatesOf(f)} = sets'[fsts'[g].states]
                        /\ Isomorphism(m, Heap, f, Heap', g)
                /\ \A h \in DOMAIN fsts : ViewOf(Heap', h) = ViewOf(Heap, h)
       /\ lastop'.op \in {"add_transition", "remove_transitions_to_targets", "rename_label"} =>
            \A h \in DOMAIN fsts :
                lastop'.self \notin StatesOf(h) => ViewOf(Heap', h) = ViewOf(Heap, h)
       /\ lastop'.op = "alphabet.add" =>
            \A h \in DOMAIN fsts \ {lastop'.self} : ViewOf(Heap', h) = ViewOf(Heap, h)]_vars

\* a copy was made of an automaton with two transitions, one of them added
\* after construction, and the transitions of the initial state of the copy
\* have been removed since: the original still has its own
C26_Witness ==
    /\ Len(fsts) = 2
    /\ lastop.op = "remove_transitions_to_targets"
    /\ lastop.self = fsts[2].initialstate
    /\ ArcsOf(Heap, fsts[2].initialstate) = <<>>
    /\ Len(ArcsOf(Heap, fsts[1].initialstate)) = 2
    /\ SymB \in AlphabetOf(2)
    /\ SymB \notin AlphabetOf(1)

----------------------------------------------------------------------------
(* Claims about the numbering of the states *)

\* the states reached from the initial state of the automaton just numbered
NumberReachable == GraphClosure({fsts[lastop.self].initialstate})

\* C27: save_att and todict give every state reachable from the initial
\* state one number and one place in the list of states, so that its
\* transitions are put out once; the initial state has the number 0, the
\* numbers are 0, 1, ... without a gap, and a state that is not reachable is
\* not in the list
C27_NumberingOncePerState ==
    lastop.op \in {"save_att", "todict"} =>
        LET listed == lastop.ret.states
            n == Cardinality(NumberReachable)
        IN  /\ \A s \in NumberReachable : Cardinality({k \in DOMAIN listed : listed[k] = s}) = 1
            /\ \A k \in DOMAIN listed : listed[k] \in NumberReachable
            /\ listed[1] = fsts[lastop.self].initialstate
            /\ lastop.op = "save_att" =>
                /\ lastop.ret.ssymtab[listed[1]] = "0"
                /\ {lastop.ret.ssymtab[s] : s \in NumberReachable}
                        = {ToString(k) : k \in 0..(n - 1)}
                /\ Len(lastop.ret.ssyms) = n
                /\ Len(lastop.ret.lines)
                        = Cardinality(UNION {Leaving(s) : s \in NumberReachable})
                            + Cardinality(NumberReachable \cap sets[fsts[lastop.self].finalstates])
            /\ lastop.op = "todict" =>
                /\ lastop.ret.statenums[listed[1]] = 0
                /\ {lastop.ret.statenums[s] : s \in NumberReachable} = 0..(n - 1)
                /\ Len(lastop.ret.transitions)
                        = Cardinality(UNION {Leaving(s) : s \in NumberReachable})

----------------------------------------------------------------------------
(* Claims about generate and analyze as views of one relation *)

\* the label consumes nothing in the direction given
NonConsumingIn(label, inverse) ==
    LabelAt(label, InIdx(inverse)) = EPSILON \/ is_flag(LabelAt(label, InIdx(inverse)))

RECURSIVE NonConsumingClosureIn(_, _)
NonConsumingClosureIn(S, inverse) ==
    LET N == S \cup {trs[p[2]].targetstate :
                        p \in {q \in UNION {Leaving(s) : s \in S} :
                                    NonConsumingIn(q[1], inverse)}}
    IN  IF N = S THEN S ELSE NonConsumingClosureIn(N, inverse)

\* the automaton has no cycle of transitions that consume nothing, neither
\* for generate nor for analyze
NoNonConsumingCycles ==
    \A inverse \in BOOLEAN : \A s \in ApplyStates :
        s \notin NonConsumingClosureIn(
                    {trs[p[2]].targetstate :
                        p \in {q \in Leaving(s) : NonConsumingIn(q[1], inverse)}}, inverse)

\* the generator run to its end, without a flag filter: the (text, cost) of
\* everything it yields
RECURSIVE apply_all(_, _)
apply_all(H, A) ==
    IF A.Q = {} THEN {}
    ELSE LET e == heappop(A.Q)
         IN  IF e.state # None THEN apply_all(H, apply_expand(H, A, e))
             ELSE (IF -e.negpos = Len(A.w)
                   THEN {<<apply_result(A, e).text, e.cost>>}
                   ELSE {})
                  \cup apply_all(H, [A EXCEPT !.Q = @ \ {e}])

\* list(generate(word, weights=True, obey_flags=False)), or analyze
ApplyAll(word, inverse) ==
    apply_all(Heap, apply_start(Heap, ap.fst, word, inverse, FALSE, FALSE))

\* the call is generate or analyze without a flag filter, on an automaton
\* without non-consuming cycles, and has yielded a result
YieldedUnfiltered ==
    /\ out # <<>>
    /\ ~ap.obey_flags
    /\ ~ap.print_flags
    /\ NoNonConsumingCycles

WildcardOnBothSides ==
    \A t \in DOMAIN trs :
        WILDCARD \in {trs[t].label[j] : j \in DOMAIN trs[t].label}
            => \A j \in DOMAIN trs[t].label : trs[t].label[j] = WILDCARD

\* the symbols of the alphabet, flag diacritics apart, are single characters,
\* so that a string has one tokenization; and the symbols of the labels are
\* in the alphabet
SingleCharacterSymbols ==
    /\ \A sym \in ApplyAlphabet : Len(sym) = 1 \/ is_flag(sym)
    /\ \A t \in DOMAIN trs : \A j \in DOMAIN trs[t].label :
            trs[t].label[j] = EPSILON \/ trs[t].label[j] \in ApplyAlphabet

----------------------------------------------------------------------------
(* Claims about character_ranges *)

\* the characters of the ranges handed to character_ranges
RangeCharacters ==
    {Chr(RangeSymbols(lastop.args[1])[k]) : k \in DOMAIN RangeSymbols(lastop.args[1])}

\* C29: the automaton of character_ranges(ranges, complement) has two states;
\* without complement it accepts the characters of the ranges, each as a word
\* of one symbol at cost 0, over one transition per distinct character even
\* when ranges overlap; with complement it accepts over the one wildcard
\* transition what is not in its alphabet; and its alphabet holds every
\* character of the ranges
C29_OneTransitionPerCharacter ==
    lastop.op = "character_ranges" =>
        LET self == lastop.ret
            complement == lastop.args[2]
        IN  /\ Cardinality(StatesOf(self)) = 2
            /\ Relation(Heap, self)
                    = IF complement THEN {<<<<WILDCARD>>, <<WILDCARD>>, 0>>}
                      ELSE {<<<<x>>, <<x>>, 0>> : x \in RangeCharacters}
            /\ Len(ArcsOf(Heap, fsts[self].initialstate))
                    = IF complement THEN 1 ELSE Cardinality(RangeCharacters)
            /\ RangeCharacters \subseteq AlphabetOf(self)
            /\ complement => WILDCARD \in AlphabetOf(self)

====
